---- MODULE Spec2Model ----
(***************************************************************************)
(* The filter expression language of datadabble                            *)
(* (backend/app/api/v1/filter_parser.py): Lexer, Parser, and the compiler  *)
(* ast_to_mongo_query, as called by list_entries / filter_entries.         *)
(*                                                                         *)
(* A Python str is a sequence of characters, each character a one-element  *)
(* TLA+ string.  Every other Python value is a record tagged by t.        *)
(***************************************************************************)
EXTENDS Integers, Sequences, FiniteSets, TLC

VARIABLES expression, pc, pos, tokens, ast, field_types, query, error, results, other,
          conversion

vars == <<expression, pc, pos, tokens, ast, field_types, query, error, results, other,
          conversion>>

----------------------------------------------------------------------------
(* Characters.  SUP2 stands for the one character U+00B2 (superscript two), *)
(* for which str.isdigit() and str.isalnum() are true although it is not a  *)
(* decimal digit; TAB for U+0009.                                           *)

SUP2 == "SUP2"
TAB == "TAB"

LowerLetters == <<"a", "b", "c", "d", "e", "f", "g", "h", "i", "j", "k", "l", "m",
                  "n", "o", "p", "q", "r", "s", "t", "u", "v", "w", "x", "y", "z">>
UpperLetters == <<"A", "B", "C", "D", "E", "F", "G", "H", "I", "J", "K", "L", "M",
                  "N", "O", "P", "Q", "R", "S", "T", "U", "V", "W", "X", "Y", "Z">>
DecimalDigits == <<"0", "1", "2", "3", "4", "5", "6", "7", "8", "9">>

Range(s) == {s[i] : i \in DOMAIN s}

isspace(c) == c \in {" ", TAB}
isdecimal(c) == c \in Range(DecimalDigits)
isdigit(c) == isdecimal(c) \/ c = SUP2
isalpha(c) == c \in Range(LowerLetters) \cup Range(UpperLetters)
isalnum(c) == isalpha(c) \/ isdigit(c)

(* str.lower(), character by character *)
lower_char(c) ==
    IF \E i \in DOMAIN UpperLetters : UpperLetters[i] = c
    THEN LowerLetters[CHOOSE i \in DOMAIN UpperLetters : UpperLetters[i] = c]
    ELSE c

lower(s) == [i \in DOMAIN s |-> lower_char(s[i])]

RECURSIVE lstrip(_)
lstrip(s) == IF s # <<>> /\ isspace(Head(s)) THEN lstrip(Tail(s)) ELSE s

RECURSIVE rstrip(_)
rstrip(s) ==
    IF s # <<>> /\ isspace(s[Len(s)]) THEN rstrip(SubSeq(s, 1, Len(s) - 1)) ELSE s

strip(s) == rstrip(lstrip(s))

(* text[i], with the 0-based index of the code *)
At(text, i) == text[i + 1]

(* text[start:stop], for 0 <= start <= stop <= len(text) *)
Slice(text, start, stop) == SubSeq(text, start + 1, stop)

----------------------------------------------------------------------------
(* Python values *)

PyNone == [t |-> "None"]
PyBool(b) == [t |-> "bool", b |-> b]
PyStr(s) == [t |-> "str", s |-> s]
PyInt(neg, mag) == [t |-> "int", neg |-> neg /\ mag # 0, mag |-> mag]
PyList(items) == [t |-> "list", items |-> items]
(* a dict with str keys, as the sequence of its <<key, value>> items *)
PyDict(items) == [t |-> "dict", items |-> items]

RECURSIVE Pow10(_)
Pow10(n) == IF n = 0 THEN 1 ELSE 10 * Pow10(n - 1)

(* A finite float is (-1)^neg * mant / 10^frac, kept with no trailing zero *)
(* in the fraction, so that 42 and 42.0 are the same value.  Within the    *)
(* bounds of the model (at most 9 significant digits) every such decimal   *)
(* is told apart from the others by its IEEE double.                       *)
RECURSIVE Normal(_, _)
Normal(mant, frac) ==
    IF frac > 0 /\ mant % 10 = 0 THEN Normal(mant \div 10, frac - 1)
    ELSE [mant |-> mant, frac |-> frac]

PyFloat(neg, mant, frac) ==
    LET n == Normal(mant, frac)
    IN [t |-> "float", kind |-> "finite", neg |-> neg, mant |-> n.mant, frac |-> n.frac]

PyInf(neg) == [t |-> "float", kind |-> "inf", neg |-> neg, mant |-> 0, frac |-> 0]
PyNan == [t |-> "float", kind |-> "nan", neg |-> FALSE, mant |-> 0, frac |-> 0]

(* The largest finite double, 1.797...e308, has this many integer digits. *)
DblMaxDigits == 309

Raise(kind, msg) == [kind |-> kind, msg |-> msg]
NoError == [kind |-> "none", msg |-> <<>>]

----------------------------------------------------------------------------
(* The builtins float(), int(), bool() and str() on the values above *)

Returned(v) == [ok |-> TRUE, val |-> v, exc |-> "none"]
Raised(exc) == [ok |-> FALSE, val |-> PyNone, exc |-> exc]

(* first 1-based index of s holding a character of set, or 0 *)
IndexOf(s, set) ==
    IF \E i \in DOMAIN s : s[i] \in set
    THEN CHOOSE i \in DOMAIN s : s[i] \in set /\ \A j \in 1..(i - 1) : s[j] \notin set
    ELSE 0

(* a run of decimal digits, single underscores allowed between digits *)
IsDigitRun(s) ==
    /\ s # <<>>
    /\ \A i \in DOMAIN s : isdecimal(s[i]) \/ s[i] = "_"
    /\ isdecimal(s[1]) /\ isdecimal(s[Len(s)])
    /\ \A i \in 1..(Len(s) - 1) : ~(s[i] = "_" /\ s[i + 1] = "_")

DigitValue(c) == (CHOOSE i \in DOMAIN DecimalDigits : DecimalDigits[i] = c) - 1

OnlyDigits(s) == SelectSeq(s, isdecimal)

RECURSIVE StripZeros(_)
StripZeros(s) == IF s # <<>> /\ Head(s) = "0" THEN StripZeros(Tail(s)) ELSE s

RECURSIVE DigitsToNat(_)
DigitsToNat(s) ==
    IF s = <<>> THEN 0 ELSE 10 * DigitsToNat(SubSeq(s, 1, Len(s) - 1)) + DigitValue(s[Len(s)])

Signed(s) == s # <<>> /\ Head(s) \in {"+", "-"}
Unsigned(s) == IF Signed(s) THEN Tail(s) ELSE s

(* float(s) for a str s: surrounding whitespace, a sign, then inf, infinity *)
(* or nan in any letter case, or decimal digits with at most one point and  *)
(* an optional exponent; anything else is a ValueError.  A value of 310 or  *)
(* more integer digits is beyond the largest double and becomes inf; a text *)
(* of exactly DblMaxDigits integer digits is outside the model's inputs.    *)

(* the value of the digits (leading zeros stripped) with fracLen of them   *)
(* after the point                                                          *)
float_scaled(neg, digits, fracLen) ==
    IF digits = <<>> THEN Returned(PyFloat(neg, 0, 0))
    ELSE IF Len(digits) - fracLen > DblMaxDigits THEN Returned(PyInf(neg))
    ELSE IF fracLen >= 0 THEN Returned(PyFloat(neg, DigitsToNat(digits), fracLen))
    ELSE Returned(PyFloat(neg, DigitsToNat(digits) * Pow10(-fracLen), 0))

(* the exponent of the text x that starts at the letter e, if any *)
float_exponent(x) ==
    IF x = <<>> THEN 0
    ELSE (IF x[2] = "-" THEN -1 ELSE 1) * DigitsToNat(OnlyDigits(x))

(* integer part ip, fraction part fp, exponent text x *)
float_value(neg, ip, fp, x) ==
    IF /\ ip # <<>> \/ fp # <<>>
       /\ ip = <<>> \/ IsDigitRun(ip)
       /\ fp = <<>> \/ IsDigitRun(fp)
       /\ x = <<>> \/ IsDigitRun(Unsigned(Tail(x)))
    THEN float_scaled(neg, StripZeros(OnlyDigits(ip) \o OnlyDigits(fp)),
                      Len(OnlyDigits(fp)) - float_exponent(x))
    ELSE Raised("ValueError")

float_mantissa(neg, m, x, dot) ==
    float_value(neg,
                IF dot = 0 THEN m ELSE SubSeq(m, 1, dot - 1),
                IF dot = 0 THEN <<>> ELSE SubSeq(m, dot + 1, Len(m)),
                x)

float_split(neg, body, e) ==
    float_mantissa(neg,
                   IF e = 0 THEN body ELSE SubSeq(body, 1, e - 1),
                   IF e = 0 THEN <<>> ELSE SubSeq(body, e, Len(body)),
                   IndexOf(IF e = 0 THEN body ELSE SubSeq(body, 1, e - 1), {"."}))

float_unsigned(neg, body) ==
    IF lower(body) \in {<<"i", "n", "f">>, <<"i", "n", "f", "i", "n", "i", "t", "y">>}
    THEN Returned(PyInf(neg))
    ELSE IF lower(body) = <<"n", "a", "n">> THEN Returned(PyNan)
    ELSE float_split(neg, body, IndexOf(body, {"e", "E"}))

float_signed(s) == float_unsigned(Signed(s) /\ Head(s) = "-", Unsigned(s))

float_of_str(s) == float_signed(strip(s))

(* int(s) for a str s: surrounding whitespace, a sign, decimal digits *)
int_signed(s) ==
    IF IsDigitRun(Unsigned(s))
    THEN Returned(PyInt(Signed(s) /\ Head(s) = "-", DigitsToNat(OnlyDigits(s))))
    ELSE Raised("ValueError")

int_of_str(s) == int_signed(strip(s))

(* int(value): a float is truncated toward zero; infinity is an            *)
(* OverflowError and nan a ValueError                                       *)
int(value) ==
    CASE value.t = "bool" -> Returned(PyInt(FALSE, IF value.b THEN 1 ELSE 0))
      [] value.t = "int" -> Returned(value)
      [] value.t = "float" ->
            IF value.kind = "inf" THEN Raised("OverflowError")
            ELSE IF value.kind = "nan" THEN Raised("ValueError")
            ELSE Returned(PyInt(value.neg, value.mant \div Pow10(value.frac)))
      [] value.t = "str" -> int_of_str(value.s)
      [] OTHER -> Raised("TypeError")

(* float(value) *)
float(value) ==
    CASE value.t = "bool" -> Returned(PyFloat(FALSE, IF value.b THEN 1 ELSE 0, 0))
      [] value.t = "int" -> Returned(PyFloat(value.neg, value.mag, 0))
      [] value.t = "float" -> Returned(value)
      [] value.t = "str" -> float_of_str(value.s)
      [] OTHER -> Raised("TypeError")

(* bool(value): the truth value *)
bool(value) ==
    CASE value.t = "bool" -> value.b
      [] value.t = "int" -> value.mag # 0
      [] value.t = "float" -> value.kind # "finite" \/ value.mant # 0
      [] value.t = "str" -> value.s # <<>>
      [] value.t \in {"list", "dict"} -> value.items # <<>>
      [] OTHER -> FALSE

RECURSIVE NatToDigits(_)
NatToDigits(n) ==
    IF n < 10 THEN <<DecimalDigits[n + 1]>>
    ELSE NatToDigits(n \div 10) \o <<DecimalDigits[(n % 10) + 1]>>

RECURSIVE Zeros(_)
Zeros(n) == IF n <= 0 THEN <<>> ELSE <<"0">> \o Zeros(n - 1)

(* repr of a float below 1e16: positional notation, or exponent notation  *)
(* when the value is below 1e-4; d are the digits of the mantissa, lead the *)
(* decimal exponent of its first digit                                      *)
float_exp_repr(d, ex) ==
    <<Head(d)>> \o (IF Len(d) > 1 THEN <<".">> \o Tail(d) ELSE <<>>)
    \o <<"e", "-">> \o (IF Len(ex) < 2 THEN <<"0">> ELSE <<>>) \o ex

float_digits_repr(value, d, lead) ==
    IF value.frac = 0 THEN d \o <<".", "0">>
    ELSE IF lead >= 0 THEN SubSeq(d, 1, lead + 1) \o <<".">> \o SubSeq(d, lead + 2, Len(d))
    ELSE IF lead >= -4 THEN <<"0", ".">> \o Zeros(-lead - 1) \o d
    ELSE float_exp_repr(d, NatToDigits(-lead))

float_finite_repr(value, d) == float_digits_repr(value, d, Len(d) - value.frac - 1)

float_repr(value) ==
    IF value.kind = "nan" THEN <<"n", "a", "n">>
    ELSE (IF value.neg THEN <<"-">> ELSE <<>>)
         \o (IF value.kind = "inf" THEN <<"i", "n", "f">>
             ELSE float_finite_repr(value, NatToDigits(value.mant)))

RECURSIVE str(_)
RECURSIVE repr(_)

(* ", ".join(repr(item)) over the items of a list *)
RECURSIVE repr_items(_)
repr_items(items) ==
    IF items = <<>> THEN <<>>
    ELSE repr(Head(items))
         \o (IF Len(items) > 1 THEN <<",", " ">> \o repr_items(Tail(items)) ELSE <<>>)

(* ", ".join(repr(key): repr(value)) over the items of a dict *)
RECURSIVE repr_entries(_)
repr_entries(items) ==
    IF items = <<>> THEN <<>>
    ELSE repr(PyStr(Head(items)[1])) \o <<":", " ">> \o repr(Head(items)[2])
         \o (IF Len(items) > 1 THEN <<",", " ">> \o repr_entries(Tail(items)) ELSE <<>>)

(* repr(value); a str is taken to hold no quote and no backslash *)
repr(value) ==
    CASE value.t = "str" -> <<"'">> \o value.s \o <<"'">>
      [] value.t = "list" -> <<"[">> \o repr_items(value.items) \o <<"]">>
      [] value.t = "dict" -> <<"{">> \o repr_entries(value.items) \o <<"}">>
      [] OTHER -> str(value)

(* str(value) *)
str(value) ==
    CASE value.t = "str" -> value.s
      [] value.t = "bool" -> IF value.b THEN <<"T", "r", "u", "e">> ELSE <<"F", "a", "l", "s", "e">>
      [] value.t = "int" -> (IF value.neg THEN <<"-">> ELSE <<>>) \o NatToDigits(value.mag)
      [] value.t = "float" -> float_repr(value)
      [] value.t \in {"list", "dict"} -> repr(value)
      [] OTHER -> <<"N", "o", "n", "e">>

(* re.escape(s): a backslash before each of the special characters of      *)
(* CPython's re module                                                      *)
RegexSpecial ==
    {"(", ")", "[", "]", "{", "}", "?", "*", "+", "-", "|", "^", "$", "\\", ".", "&",
     "~", "#", " ", TAB}

RECURSIVE re_escape(_)
re_escape(s) ==
    IF s = <<>> THEN <<>>
    ELSE (IF Head(s) \in RegexSpecial THEN <<"\\", Head(s)>> ELSE <<Head(s)>>)
         \o re_escape(Tail(s))


----------------------------------------------------------------------------
(* Lexer *)

Token(type, val) == [type |-> type, val |-> val]
EOF == Token("EOF", PyNone)

OPERATORS == {<<"=">>, <<"!", "=">>, <<">">>, <<"<">>, <<">", "=">>, <<"<", "=">>}
KEYWORDS ==
    {<<"c", "o", "n", "t", "a", "i", "n", "s">>,
     <<"s", "t", "a", "r", "t", "s", "w", "i", "t", "h">>,
     <<"e", "n", "d", "s", "w", "i", "t", "h">>,
     <<"i", "s">>, <<"n", "o", "t">>, <<"e", "m", "p", "t", "y">>, <<"n", "u", "l", "l">>}
LOGIC == {<<"a", "n", "d">>, <<"o", "r">>}

RECURSIVE skip_whitespace(_, _)
skip_whitespace(text, p) ==
    IF p < Len(text) /\ isspace(At(text, p)) THEN skip_whitespace(text, p + 1) ELSE p

(* The loop of read_string, from scan position p with the characters read  *)
(* so far: the string and the position after its closing quote, or the     *)
(* error when the text ends first.                                         *)
RECURSIVE read_string_loop(_, _, _, _)
read_string_loop(text, p, quote, result) ==
    IF p >= Len(text)
    THEN [ok |-> FALSE, val |-> PyNone, pos |-> p,
          error |-> Raise("FilterParseError", <<"Unterminated string">>)]
    ELSE LET char == At(text, p)
         IN  IF char = quote
             THEN [ok |-> TRUE, val |-> PyStr(result), pos |-> p + 1, error |-> NoError]
             ELSE IF char = "\\"
             THEN IF p + 1 < Len(text)
                  THEN read_string_loop(text, p + 2, quote, Append(result, At(text, p + 1)))
                  ELSE read_string_loop(text, p + 1, quote, result)
             ELSE read_string_loop(text, p + 1, quote, Append(result, char))

(* read_string closing every string at a double quote *)
read_string_double_quote(text, p) == read_string_loop(text, p + 1, "\"", <<>>)

read_string(text, p) == read_string_loop(text, p + 1, At(text, p), <<>>)

(* the position the scan of read_number reaches from the digit at p by     *)
(* taking the iterations that consume a digit                              *)
digits_end(text, p) ==
    CHOOSE q \in (p + 1)..Len(text) :
        /\ q = Len(text) \/ ~isdigit(At(text, q))
        /\ \A r \in p..(q - 1) : isdigit(At(text, r))

(* the scan of read_number: the position after the number text *)
RECURSIVE read_number_scan(_, _, _, _)
read_number_scan(text, start, p, has_dot) ==
    IF p >= Len(text) THEN p
    ELSE LET char == At(text, p)
         IN  IF isdigit(char) THEN read_number_scan(text, start, digits_end(text, p), has_dot)
             ELSE IF char = "." /\ ~has_dot THEN read_number_scan(text, start, p + 1, TRUE)
             ELSE IF char = "-" /\ p = start THEN read_number_scan(text, start, p + 1, has_dot)
             ELSE p

(* read_number: float() of the scanned text, whose ValueError is not caught *)
read_number_value(f, stop) ==
    IF f.ok THEN [ok |-> TRUE, val |-> f.val, pos |-> stop, error |-> NoError]
    ELSE [ok |-> FALSE, val |-> PyNone, pos |-> stop,
          error |-> Raise(f.exc, <<"could not convert string to float">>)]

read_number_to(text, p, stop) == read_number_value(float_of_str(Slice(text, p, stop)), stop)

read_number(text, p) == read_number_to(text, p, read_number_scan(text, p, p, FALSE))

RECURSIVE read_identifier_scan(_, _)
read_identifier_scan(text, p) ==
    IF p < Len(text) /\ (isalnum(At(text, p)) \/ At(text, p) \in {"_", "-", "."})
    THEN read_identifier_scan(text, p + 1)
    ELSE p

(* the identifier in lower case *)
read_identifier_to_lowered(text, p, stop) == [val |-> lower(Slice(text, p, stop)), pos |-> stop]

read_identifier_to(text, p, stop) == [val |-> Slice(text, p, stop), pos |-> stop]

read_identifier(text, p) == read_identifier_to(text, p, read_identifier_scan(text, p))

(* the token an identifier becomes (tokenize, the identifier branch) *)
keyword_token(ident, low) ==
    IF low \in LOGIC THEN Token("LOGIC", PyStr(low))
    ELSE IF low \in KEYWORDS THEN Token("KEYWORD", PyStr(low))
    ELSE IF low = <<"t", "r", "u", "e">> THEN Token("BOOLEAN", PyBool(TRUE))
    ELSE IF low = <<"f", "a", "l", "s", "e">> THEN Token("BOOLEAN", PyBool(FALSE))
    ELSE Token("FIELD", PyStr(ident))

(* the identifier branch comparing the identifier as it is written *)
identifier_token_as_written(ident) == keyword_token(ident, ident)

identifier_token(ident) == keyword_token(ident, lower(ident))

(* the operator branch of tokenize, at the operator character at p *)
operator_token(op, stop) ==
    IF op \in OPERATORS
    THEN [ok |-> TRUE, val |-> PyStr(op), pos |-> stop, error |-> NoError]
    ELSE [ok |-> FALSE, val |-> PyNone, pos |-> stop,
          error |-> Raise("FilterParseError", <<"Unknown operator: ", op>>)]

(* the operator branch taking the one character only *)
read_operator_one_character(text, p) == operator_token(<<At(text, p)>>, p + 1)

read_operator(text, p) ==
    IF p + 1 < Len(text) /\ At(text, p + 1) = "="
    THEN operator_token(<<At(text, p), "=">>, p + 2)
    ELSE operator_token(<<At(text, p)>>, p + 1)

(* the branch the if/elif chain of tokenize takes at character char of text *)
lex_branch(text, p) ==
    LET char == At(text, p)
    IN  IF char = "(" THEN "lparen"
        ELSE IF char = ")" THEN "rparen"
        ELSE IF char \in {"\"", "'"} THEN "string"
        ELSE IF isdigit(char) \/ (char = "-" /\ p + 1 < Len(text) /\ isdigit(At(text, p + 1)))
        THEN "number"
        ELSE IF char \in {"=", "!", ">", "<"} THEN "operator"
        ELSE IF isalpha(char) \/ char = "_" THEN "identifier"
        ELSE "unexpected"

(* the token list after read_string, read_number or the operator branch   *)
(* returned r, or the exception it raised                                  *)
emit(toks, r, type) ==
    IF r.ok
    THEN [status |-> "next", pos |-> r.pos, tokens |-> Append(toks, Token(type, r.val)),
          error |-> NoError]
    ELSE [status |-> "raise", pos |-> r.pos, tokens |-> toks, error |-> r.error]

emit_identifier(toks, id) ==
    [status |-> "next", pos |-> id.pos, tokens |-> Append(toks, identifier_token(id.val)),
     error |-> NoError]

(* the if/elif chain of tokenize at the character at q, by its branch *)
tokenize_branch(text, q, toks, branch) ==
    CASE branch = "lparen" ->
            [status |-> "next", pos |-> q + 1,
             tokens |-> Append(toks, Token("LPAREN", PyStr(<<"(">>))), error |-> NoError]
      [] branch = "rparen" ->
            [status |-> "next", pos |-> q + 1,
             tokens |-> Append(toks, Token("RPAREN", PyStr(<<")">>))), error |-> NoError]
      [] branch = "string" -> emit(toks, read_string(text, q), "STRING")
      [] branch = "number" -> emit(toks, read_number(text, q), "NUMBER")
      [] branch = "operator" -> emit(toks, read_operator(text, q), "OPERATOR")
      [] branch = "identifier" -> emit_identifier(toks, read_identifier(text, q))
      [] OTHER ->
            [status |-> "raise", pos |-> q, tokens |-> toks,
             error |-> Raise("FilterParseError", <<"Unexpected character: ", At(text, q)>>)]

(* the loop body after skip_whitespace left the scan position at q *)
tokenize_at(text, q, toks) ==
    IF q >= Len(text)
    THEN [status |-> "break", pos |-> q, tokens |-> toks, error |-> NoError]
    ELSE tokenize_branch(text, q, toks, lex_branch(text, q))

(* One iteration of the while loop of tokenize, entered at scan position p *)
(* (p < length) with the token list toks: the loop goes on ("next"), is    *)
(* left by break or raises.                                                *)
tokenize_step(text, p, toks) == tokenize_at(text, skip_whitespace(text, p), toks)

(* Lexer(text).tokenize(): the token list, or the exception raised *)
RECURSIVE tokenize_from(_, _, _)

tokenize_loop(text, r) ==
    CASE r.status = "next" -> tokenize_from(text, r.pos, r.tokens)
      [] r.status = "break" -> [ok |-> TRUE, tokens |-> Append(r.tokens, EOF), error |-> NoError]
      [] OTHER -> [ok |-> FALSE, tokens |-> r.tokens, error |-> r.error]

tokenize_from(text, p, toks) ==
    IF p >= Len(text) THEN [ok |-> TRUE, tokens |-> Append(toks, EOF), error |-> NoError]
    ELSE tokenize_loop(text, tokenize_step(text, p, toks))

tokenize(text) == tokenize_from(text, 0, <<>>)


----------------------------------------------------------------------------
(* Parser.  Every method is an operator of the token list and the parser   *)
(* position; its result holds the position it leaves and either the value  *)
(* it returns or the FilterParseError it raises.                           *)

current(toks, p) == IF p < Len(toks) THEN toks[p + 1] ELSE EOF

Parsed(node, p) == [ok |-> TRUE, node |-> node, pos |-> p, error |-> NoError]
ParseError(p, msg) ==
    [ok |-> FALSE, node |-> PyNone, pos |-> p, error |-> Raise("FilterParseError", msg)]

Empty == [type |-> "empty"]
Comparison(field, operator, value) ==
    [type |-> "comparison", field |-> field, operator |-> operator, value |-> value]
And(left, right) == [type |-> "and", left |-> left, right |-> right]
Or(left, right) == [type |-> "or", left |-> left, right |-> right]

IsKeyword(tok, word) == tok.type = "KEYWORD" /\ tok.val = PyStr(word)

expect(toks, p, token_type) ==
    IF current(toks, p).type # token_type
    THEN ParseError(p, <<"Expected ", token_type, ", got ", current(toks, p).type>>)
    ELSE Parsed(current(toks, p).val, p + 1)

(* parse_value taking whatever token comes, the end of input included *)
parse_value_any_token(toks, p) == Parsed(current(toks, p).val, p + 1)

parse_value(toks, p) ==
    IF current(toks, p).type \in {"STRING", "NUMBER", "BOOLEAN"}
    THEN Parsed(current(toks, p).val, p + 1)
    ELSE ParseError(p, <<"Expected value, got ", current(toks, p).type>>)

(* the comparison of field with the operator op, without the value *)
literal_comparison_without_value(field, op, value) ==
    IF value.ok THEN Parsed(Comparison(field, op, PyNone), value.pos) ELSE value

(* the comparison of field with the operator op and the value parse_value *)
(* returned, or its error                                                  *)
literal_comparison(field, op, value) ==
    IF value.ok THEN Parsed(Comparison(field, op, value.node), value.pos) ELSE value

(* is not null given an operator the compiler has no branch for *)
is_not_comparison_unhandled(field, tok3, p) ==
    IF IsKeyword(tok3, <<"n", "u", "l", "l">>)
    THEN Parsed(Comparison(field, <<"n", "o", "t", "_", "n", "u", "l", "l">>, PyNone), p + 1)
    ELSE IF IsKeyword(tok3, <<"e", "m", "p", "t", "y">>)
    THEN Parsed(Comparison(field, <<"i", "s", "_", "n", "o", "t", "_", "e", "m", "p", "t", "y">>,
                           PyNone), p + 1)
    ELSE ParseError(p, <<"Expected 'null' or 'empty' after 'is not'">>)

(* after "is not", at the token tok3 at position p *)
is_not_comparison(field, tok3, p) ==
    IF IsKeyword(tok3, <<"n", "u", "l", "l">>)
    THEN Parsed(Comparison(field, <<"i", "s", "_", "n", "o", "t", "_", "n", "u", "l", "l">>, PyNone),
                p + 1)
    ELSE IF IsKeyword(tok3, <<"e", "m", "p", "t", "y">>)
    THEN Parsed(Comparison(field, <<"i", "s", "_", "n", "o", "t", "_", "e", "m", "p", "t", "y">>,
                           PyNone), p + 1)
    ELSE ParseError(p, <<"Expected 'null' or 'empty' after 'is not'">>)

(* a bare "is" taken as is null *)
is_comparison_lenient(toks, field, tok2, p) ==
    IF IsKeyword(tok2, <<"n", "o", "t">>)
    THEN is_not_comparison(field, current(toks, p + 1), p + 1)
    ELSE IF IsKeyword(tok2, <<"e", "m", "p", "t", "y">>)
    THEN Parsed(Comparison(field, <<"i", "s", "_", "e", "m", "p", "t", "y">>, PyNone), p + 1)
    ELSE Parsed(Comparison(field, <<"i", "s", "_", "n", "u", "l", "l">>, PyNone),
                IF IsKeyword(tok2, <<"n", "u", "l", "l">>) THEN p + 1 ELSE p)

(* after "is", at the token tok2 at position p *)
is_comparison(toks, field, tok2, p) ==
    IF IsKeyword(tok2, <<"n", "o", "t">>)
    THEN is_not_comparison(field, current(toks, p + 1), p + 1)
    ELSE IF IsKeyword(tok2, <<"n", "u", "l", "l">>)
    THEN Parsed(Comparison(field, <<"i", "s", "_", "n", "u", "l", "l">>, PyNone), p + 1)
    ELSE IF IsKeyword(tok2, <<"e", "m", "p", "t", "y">>)
    THEN Parsed(Comparison(field, <<"i", "s", "_", "e", "m", "p", "t", "y">>, PyNone), p + 1)
    ELSE ParseError(p, <<"Expected 'null', 'not', or 'empty' after 'is'">>)

(* parse_comparison at the token tok at position p *)
comparison_at(toks, p, field, tok) ==
    IF \/ tok.type = "OPERATOR"
       \/ /\ tok.type = "KEYWORD"
          /\ tok.val.s \in {<<"c", "o", "n", "t", "a", "i", "n", "s">>,
                            <<"s", "t", "a", "r", "t", "s", "w", "i", "t", "h">>,
                            <<"e", "n", "d", "s", "w", "i", "t", "h">>}
    THEN literal_comparison(field, tok.val.s, parse_value(toks, p + 1))
    ELSE IF IsKeyword(tok, <<"i", "s">>)
    THEN is_comparison(toks, field, current(toks, p + 1), p + 1)
    ELSE ParseError(p, <<"Expected operator after field '", field, "'">>)

parse_comparison(toks, p, field) == comparison_at(toks, p, field, current(toks, p))

RECURSIVE parse_or(_, _)
RECURSIVE parse_or_loop(_, _, _)
RECURSIVE parse_and_loop(_, _, _)

(* a group kept as a node of its own *)
close_group_as_node(toks, expr) ==
    IF ~expr.ok THEN expr
    ELSE IF expect(toks, expr.pos, "RPAREN").ok
    THEN Parsed([type |-> "group", expr |-> expr.node], expr.pos + 1)
    ELSE expect(toks, expr.pos, "RPAREN")

(* the group closed by advancing over whatever token follows it *)
close_group_unchecked(toks, expr) ==
    IF ~expr.ok THEN expr ELSE Parsed(expr.node, expr.pos + 1)

(* parse_primary after parse_or returned expr for the group: expect(RPAREN) *)
close_group(toks, expr) ==
    IF ~expr.ok THEN expr
    ELSE IF expect(toks, expr.pos, "RPAREN").ok THEN Parsed(expr.node, expr.pos + 1)
    ELSE expect(toks, expr.pos, "RPAREN")

primary_at(toks, p, tok) ==
    IF tok.type = "LPAREN" THEN close_group(toks, parse_or(toks, p + 1))
    ELSE IF tok.type = "FIELD" THEN parse_comparison(toks, p + 1, tok.val.s)
    ELSE ParseError(p, <<"Unexpected token: ", tok.type, " ", tok.val>>)

parse_primary(toks, p) == primary_at(toks, p, current(toks, p))

(* parse_and nesting the rest of the chain in the right child *)
and_right_nesting(toks, left, right) ==
    IF ~right.ok THEN right
    ELSE IF ~parse_and_loop(toks, right.pos, right.node).ok
    THEN parse_and_loop(toks, right.pos, right.node)
    ELSE Parsed(And(left, parse_and_loop(toks, right.pos, right.node).node),
                parse_and_loop(toks, right.pos, right.node).pos)

(* the body of the while loop of parse_and, after parse_primary returned right *)
and_right(toks, left, right) ==
    IF right.ok THEN parse_and_loop(toks, right.pos, And(left, right.node)) ELSE right

(* parse_and looping on either connective: AND and OR at one precedence *)
parse_and_loop_any_logic(toks, p, left) ==
    IF current(toks, p).type = "LOGIC"
    THEN and_right(toks, left, parse_primary(toks, p + 1))
    ELSE Parsed(left, p)

(* the while loop of parse_and, with left parsed up to position p *)
parse_and_loop(toks, p, left) ==
    IF current(toks, p) = Token("LOGIC", PyStr(<<"a", "n", "d">>))
    THEN and_right(toks, left, parse_primary(toks, p + 1))
    ELSE Parsed(left, p)

and_left(toks, left) == IF left.ok THEN parse_and_loop(toks, left.pos, left.node) ELSE left

parse_and(toks, p) == and_left(toks, parse_primary(toks, p))

(* the body of the while loop of parse_or, after parse_and returned right *)
or_right(toks, left, right) ==
    IF right.ok THEN parse_or_loop(toks, right.pos, Or(left, right.node)) ELSE right

(* the while loop of parse_or, with left parsed up to position p *)
parse_or_loop(toks, p, left) ==
    IF current(toks, p) = Token("LOGIC", PyStr(<<"o", "r">>))
    THEN or_right(toks, left, parse_and(toks, p + 1))
    ELSE Parsed(left, p)

or_left(toks, left) == IF left.ok THEN parse_or_loop(toks, left.pos, left.node) ELSE left

parse_or(toks, p) == or_left(toks, parse_and(toks, p))

(* parse returning the expression whatever follows it *)
parse_end_ignoring_rest(toks, result) == result

(* parse after parse_or returned result: nothing but EOF may follow *)
parse_end(toks, result) ==
    IF ~result.ok THEN result
    ELSE IF current(toks, result.pos).type # "EOF"
    THEN ParseError(result.pos, <<"Unexpected token: ", current(toks, result.pos)>>)
    ELSE result

(* Parser(tokens).parse() *)
parse(toks) ==
    IF current(toks, 0).type = "EOF" THEN Parsed(Empty, 0)
    ELSE parse_end(toks, parse_or(toks, 0))

(* parse_filter(expression) for a str that is not blank *)
parse_tokens(lexed) ==
    IF lexed.ok THEN parse(lexed.tokens)
    ELSE [ok |-> FALSE, node |-> PyNone, pos |-> 0, error |-> lexed.error]

(* not expression or not expression.strip() *)
is_blank(expr) == expr = PyNone \/ expr.s = <<>> \/ strip(expr.s) = <<>>

(* parse_filter(expression): the AST it returns or the exception it raises *)
parse_filter(expr) ==
    IF is_blank(expr) THEN Parsed(Empty, 0) ELSE parse_tokens(tokenize(expr.s))

----------------------------------------------------------------------------
(* ast_to_mongo_query *)

(* d.get(key, default) for a dict d *)
dict_get(d, key, default) ==
    IF \E i \in DOMAIN d.items : d.items[i][1] = key
    THEN d.items[CHOOSE i \in DOMAIN d.items : d.items[i][1] = key][2]
    ELSE default

(* field_types or {} *)
or_empty_dict(ft) == IF ft.t = "dict" /\ ft.items # <<>> THEN ft ELSE PyDict(<<>>)

INT == <<"I", "N", "T">>
DEC == <<"D", "E", "C">>
BOOL == <<"B", "O", "O", "L">>
STR == <<"S", "T", "R">>

(* try: return r  except (ValueError, TypeError): return value *)
or_value(r, value) ==
    IF r.ok THEN r
    ELSE IF r.exc \in {"ValueError", "TypeError"} THEN Returned(value)
    ELSE r

(* convert_value with the INT and DEC conversions exchanged *)
convert_to_swapped(ftype, value) ==
    IF value = PyNone THEN Returned(PyNone)
    ELSE IF ftype = PyStr(INT) THEN or_value(float(value), value)
    ELSE IF ftype = PyStr(DEC) THEN or_value(int(value), value)
    ELSE Returned(value)

(* convert_value for the declared type ftype: the value it returns, or the *)
(* exception that escapes it                                               *)
convert_to(ftype, value) ==
    IF value = PyNone THEN Returned(PyNone)
    ELSE IF ftype = PyStr(INT) THEN or_value(int(value), value)
    ELSE IF ftype = PyStr(DEC) THEN or_value(float(value), value)
    ELSE IF ftype = PyStr(BOOL)
    THEN IF value.t = "bool" THEN Returned(value)
         ELSE IF value.t = "str"
         THEN Returned(PyBool(lower(value.s) \in {<<"t", "r", "u", "e">>, <<"1">>, <<"y", "e", "s">>}))
         ELSE Returned(PyBool(bool(value)))
    ELSE Returned(value)

(* convert_value taking a field without a declared type for an INT *)
convert_value_default_int(ft, field, value) ==
    convert_to(dict_get(or_empty_dict(ft), field, PyStr(INT)), value)

convert_value(ft, field, value) ==
    convert_to(dict_get(or_empty_dict(ft), field, PyStr(STR)), value)

Key_and == <<"$", "a", "n", "d">>
Key_or == <<"$", "o", "r">>
Key_ne == <<"$", "n", "e">>
Key_gt == <<"$", "g", "t">>
Key_lt == <<"$", "l", "t">>
Key_gte == <<"$", "g", "t", "e">>
Key_lte == <<"$", "l", "t", "e">>
Key_regex == <<"$", "r", "e", "g", "e", "x">>
Key_options == <<"$", "o", "p", "t", "i", "o", "n", "s">>
Key_exists == <<"$", "e", "x", "i", "s", "t", "s">>

(* f"values.{field}" *)
field_key(field) == <<"v", "a", "l", "u", "e", "s", ".">> \o field

Dict1(k, v) == PyDict(<< <<k, v>> >>)
Regex(pattern) == PyDict(<< <<Key_regex, PyStr(pattern)>>, <<Key_options, PyStr(<<"i">>)>> >>)

(* the predicate of is_empty *)
is_empty_query(key) ==
    Dict1(Key_or, PyList(<<Dict1(key, PyNone), Dict1(key, PyStr(<<>>)),
                           Dict1(key, Dict1(Key_exists, PyBool(FALSE)))>>))

(* is_not_empty joining its three conditions with $or *)
is_not_empty_query_any(key) ==
    Dict1(Key_or, PyList(<<Dict1(key, Dict1(Key_ne, PyNone)),
                           Dict1(key, Dict1(Key_ne, PyStr(<<>>))),
                           Dict1(key, Dict1(Key_exists, PyBool(TRUE)))>>))

(* the predicate of is_not_empty *)
is_not_empty_query(key) ==
    Dict1(Key_and, PyList(<<Dict1(key, Dict1(Key_ne, PyNone)),
                            Dict1(key, Dict1(Key_ne, PyStr(<<>>))),
                            Dict1(key, Dict1(Key_exists, PyBool(TRUE)))>>))

(* the predicate of a comparison node whose literal has been converted *)
keyed_query(key, op, value) ==
        CASE op = <<"=">> -> Dict1(key, value)
          [] op = <<"!", "=">> -> Dict1(key, Dict1(Key_ne, value))
          [] op = <<">">> -> Dict1(key, Dict1(Key_gt, value))
          [] op = <<"<">> -> Dict1(key, Dict1(Key_lt, value))
          [] op = <<">", "=">> -> Dict1(key, Dict1(Key_gte, value))
          [] op = <<"<", "=">> -> Dict1(key, Dict1(Key_lte, value))
          [] op = <<"c", "o", "n", "t", "a", "i", "n", "s">> ->
                Dict1(key, Regex(re_escape(str(value))))
          [] op = <<"s", "t", "a", "r", "t", "s", "w", "i", "t", "h">> ->
                Dict1(key, Regex(<<"^">> \o re_escape(str(value))))
          [] op = <<"e", "n", "d", "s", "w", "i", "t", "h">> ->
                Dict1(key, Regex(re_escape(str(value)) \o <<"$">>))
          [] op = <<"i", "s", "_", "n", "u", "l", "l">> -> Dict1(key, PyNone)
          [] op = <<"i", "s", "_", "n", "o", "t", "_", "n", "u", "l", "l">> ->
                Dict1(key, Dict1(Key_ne, PyNone))
          [] op = <<"i", "s", "_", "e", "m", "p", "t", "y">> -> is_empty_query(key)
          [] op = <<"i", "s", "_", "n", "o", "t", "_", "e", "m", "p", "t", "y">> ->
                is_not_empty_query(key)
          [] OTHER -> PyDict(<<>>)

comparison_query(field, op, value) == keyed_query(field_key(field), op, value)

(* the two compiled children in the other order *)
combine_swapped(key, left, right) ==
    IF ~left.ok THEN left
    ELSE IF ~right.ok THEN right
    ELSE Returned(Dict1(key, PyList(<<right.val, left.val>>)))

(* {"$and": [left, right]} or {"$or": [left, right]} of the compiled children *)
combine(key, left, right) ==
    IF ~left.ok THEN left
    ELSE IF ~right.ok THEN right
    ELSE Returned(Dict1(key, PyList(<<left.val, right.val>>)))

compile_comparison(node, value) ==
    IF value.ok THEN Returned(comparison_query(node.field, node.operator, value.val))
    ELSE value

(* no predicate at all for the empty node *)
empty_query_none == Returned(PyNone)

(* the predicate of the empty node *)
empty_query == Returned(PyDict(<<>>))

RECURSIVE build_query(_, _)
build_query(ft, node) ==
    CASE node.type = "empty" -> empty_query
      [] node.type = "and" ->
            combine(Key_and, build_query(ft, node.left), build_query(ft, node.right))
      [] node.type = "or" ->
            combine(Key_or, build_query(ft, node.left), build_query(ft, node.right))
      [] node.type = "comparison" ->
            compile_comparison(node, convert_value(ft, node.field, node.value))
      [] OTHER -> Returned(PyDict(<<>>))

ast_to_mongo_query(node, ft) == build_query(ft, node)

----------------------------------------------------------------------------
(* The query on the entries: Entry.objects(...).filter(__raw__=query) asks *)
(* MongoDB for the documents that match the predicate.                     *)

(* what a path yields in a document that does not hold it *)
Missing == [t |-> "missing"]

(* the segments of a dotted key *)
RECURSIVE split_path(_)
split_path(key) ==
    IF IndexOf(key, {"."}) = 0 THEN <<key>>
    ELSE <<SubSeq(key, 1, IndexOf(key, {"."}) - 1)>>
         \o split_path(SubSeq(key, IndexOf(key, {"."}) + 1, Len(key)))

(* the value a document holds at a path of keys *)
RECURSIVE get_path(_, _)
get_path(doc, path) ==
    IF path = <<>> THEN doc
    ELSE IF doc.t = "dict" THEN get_path(dict_get(doc, Head(path), Missing), Tail(path))
    ELSE Missing

IsNumeric(v) == v.t \in {"int", "float"}

(* two stored values are the same value: numbers compare by value *)
same_value(a, b) ==
    IF IsNumeric(a) /\ IsNumeric(b) /\ a.t # b.t
    THEN /\ a.t = "int" => b.kind = "finite" /\ b.frac = 0 /\ b.mant = a.mag /\ b.neg = a.neg
         /\ a.t = "float" => a.kind = "finite" /\ a.frac = 0 /\ a.mant = b.mag /\ a.neg = b.neg
    ELSE a = b

(* {key: value}: the stored value is the value, or an array holding it;    *)
(* a null value also matches a document without the key                    *)
eq_match(stored, value) ==
    \/ stored # Missing /\ same_value(stored, value)
    \/ stored.t = "list" /\ \E i \in DOMAIN stored.items : same_value(stored.items[i], value)
    \/ stored = Missing /\ value = PyNone

(* {key: {op: arg}} for the operators $ne and $exists *)
operator_match(op, stored, arg) ==
    CASE op = Key_ne -> ~eq_match(stored, arg)
      [] op = Key_exists -> (stored # Missing) = arg.b

IsOperatorDict(cond) ==
    cond.t = "dict" /\ cond.items # <<>> /\ \A i \in DOMAIN cond.items : Head(cond.items[i][1]) = "$"

(* one condition on the value stored at a key *)
condition_match(stored, cond) ==
    IF IsOperatorDict(cond)
    THEN \A i \in DOMAIN cond.items : operator_match(cond.items[i][1], stored, cond.items[i][2])
    ELSE eq_match(stored, cond)

(* the document matches the predicate: every item of the predicate holds *)
RECURSIVE matches(_, _)
matches(doc, q) ==
    \A i \in DOMAIN q.items :
        CASE q.items[i][1] = Key_and ->
                \A j \in DOMAIN q.items[i][2].items : matches(doc, q.items[i][2].items[j])
          [] q.items[i][1] = Key_or ->
                \E j \in DOMAIN q.items[i][2].items : matches(doc, q.items[i][2].items[j])
          [] OTHER -> condition_match(get_path(doc, split_path(q.items[i][1])), q.items[i][2])


----------------------------------------------------------------------------
(* can_convert_value of the field endpoints: whether a stored value can be *)
(* converted to a field type, and the converted value                      *)

DATE == <<"D", "A", "T", "E">>
EMAIL == <<"E", "M", "A", "I", "L">>
URL == <<"U", "R", "L">>
DICT == <<"D", "I", "C", "T">>
LIST == <<"L", "I", "S", "T">>

(* the tuple (ok, value) *)
Pair(ok, value) == [t |-> "tuple", items |-> <<PyBool(ok), value>>]

(* a float compared with the int made of it: value != int_val *)
float_ne_int(f, i) ==
    ~(f.kind = "finite" /\ f.frac = 0 /\ f.mant = i.mag /\ f.neg = i.neg)

(* int_val = int(value) of an int or a float, r, and the test for a lost   *)
(* fraction                                                                *)
can_convert_number(value, r) ==
    IF ~r.ok THEN r
    ELSE IF value.t = "float" /\ float_ne_int(value, r.val) THEN Returned(Pair(FALSE, PyNone))
    ELSE Returned(Pair(TRUE, r.val))

(* int_val = int(float(str_val)), with f the float and r the int *)
can_convert_digits(f, r) ==
    IF ~r.ok THEN r
    ELSE IF float_ne_int(f, r.val) THEN Returned(Pair(FALSE, PyNone))
    ELSE Returned(Pair(TRUE, r.val))

can_convert_float(f) == IF ~f.ok THEN f ELSE can_convert_digits(f.val, int(f.val))

can_convert_int(value) ==
    IF value.t = "bool" THEN Returned(Pair(TRUE, PyInt(FALSE, IF value.b THEN 1 ELSE 0)))
    ELSE IF value.t \in {"int", "float"} THEN can_convert_number(value, int(value))
    ELSE IF strip(str(value)) = <<>> THEN Returned(Pair(TRUE, PyNone))
    ELSE can_convert_float(float_of_str(strip(str(value))))

can_convert_parsed(f) == IF ~f.ok THEN f ELSE Returned(Pair(TRUE, f.val))

can_convert_dec(value) ==
    IF value.t \in {"int", "float", "bool"} THEN can_convert_parsed(float(value))
    ELSE IF strip(str(value)) = <<>> THEN Returned(Pair(TRUE, PyNone))
    ELSE can_convert_parsed(float_of_str(strip(str(value))))

can_convert_bool(value) ==
    IF value.t = "bool" THEN Returned(Pair(TRUE, value))
    ELSE IF value.t \in {"int", "float"} THEN Returned(Pair(TRUE, PyBool(bool(value))))
    ELSE IF strip(lower(str(value))) \in {<<"t", "r", "u", "e">>, <<"1">>, <<"y", "e", "s">>}
    THEN Returned(Pair(TRUE, PyBool(TRUE)))
    ELSE IF strip(lower(str(value))) \in {<<"f", "a", "l", "s", "e">>, <<"0">>, <<"n", "o">>, <<>>}
    THEN Returned(Pair(TRUE, PyBool(FALSE)))
    ELSE Returned(Pair(FALSE, PyNone))

(* re.match(r'^\d{4}-\d{2}-\d{2}', str_val) *)
is_iso_date(str_val) ==
    /\ Len(str_val) >= 10
    /\ \A i \in {1, 2, 3, 4, 6, 7, 9, 10} : isdecimal(str_val[i])
    /\ str_val[5] = "-" /\ str_val[8] = "-"

(* str_val.startswith(prefix) *)
startswith(str_val, prefix) ==
    Len(str_val) >= Len(prefix) /\ SubSeq(str_val, 1, Len(prefix)) = prefix

(* the branches that return str_val when it passes the test of the type *)
can_convert_text(str_val, passes) ==
    IF str_val = <<>> THEN Returned(Pair(TRUE, PyNone))
    ELSE IF passes THEN Returned(Pair(TRUE, PyStr(str_val)))
    ELSE Returned(Pair(FALSE, PyNone))

can_convert_date(value) ==
    can_convert_text(strip(str(value)), is_iso_date(strip(str(value))))

can_convert_email(value) ==
    can_convert_text(strip(str(value)),
                     "@" \in Range(strip(str(value))) /\ "." \in Range(strip(str(value))))

can_convert_url(value) ==
    can_convert_text(strip(str(value)),
                     \/ startswith(strip(str(value)), <<"h", "t", "t", "p", ":", "/", "/">>)
                     \/ startswith(strip(str(value)), <<"h", "t", "t", "p", "s", ":", "/", "/">>))

can_convert_structure(value, to_type) ==
    IF to_type = DICT /\ value.t = "dict" THEN Returned(Pair(TRUE, value))
    ELSE IF to_type = LIST /\ value.t = "list" THEN Returned(Pair(TRUE, value))
    ELSE Returned(Pair(FALSE, PyNone))

(* the body of the try statement *)
can_convert_try(value, to_type) ==
    CASE to_type = STR -> Returned(Pair(TRUE, PyStr(str(value))))
      [] to_type = INT -> can_convert_int(value)
      [] to_type = DEC -> can_convert_dec(value)
      [] to_type = BOOL -> can_convert_bool(value)
      [] to_type = DATE -> can_convert_date(value)
      [] to_type = EMAIL -> can_convert_email(value)
      [] to_type = URL -> can_convert_url(value)
      [] to_type \in {DICT, LIST} -> can_convert_structure(value, to_type)
      [] OTHER -> Returned(Pair(FALSE, PyNone))

(* except (ValueError, TypeError): return False, None *)
can_convert_except(r) ==
    IF ~r.ok /\ r.exc \in {"ValueError", "TypeError"} THEN Returned(Pair(FALSE, PyNone)) ELSE r

can_convert_value(value, from_type, to_type) ==
    IF value = PyNone \/ value = PyStr(<<>>) THEN Returned(Pair(TRUE, PyNone))
    ELSE can_convert_except(can_convert_try(value, to_type))

----------------------------------------------------------------------------
(* The inputs: the expression of a request and the field-type map of its  *)
(* database.                                                               *)

MaxTextLen == 3
MaxChunks == 4

RECURSIVE Concat(_)
Concat(ss) == IF ss = <<>> THEN <<>> ELSE Head(ss) \o Concat(Tail(ss))

SeqsUpTo(set, n) == UNION {[1..k -> set] : k \in 0..n}

(* every text of at most MaxTextLen characters of LexAlphabet *)
LexAlphabet == {"a", "1", " ", "=", "!", "(", ")", "\"", "-", ".", "@", "\\", SUP2}
CharTexts == SeqsUpTo(LexAlphabet, MaxTextLen)

(* every text of at most MaxChunks of these pieces *)
CmpA == <<"a", "=", "1">>
CmpB == <<"b", " ", "i", "s", " ", "n", "u", "l", "l">>
Chunks == {CmpA, CmpB, <<" ", "A", "N", "D", " ">>, <<" ", "o", "r", " ">>, <<"(">>, <<")">>}
ChunkTexts == {Concat(cs) : cs \in SeqsUpTo(Chunks, MaxChunks)}

(* A c1 B c2 C c3 D, and the parenthesised forms of three comparisons *)
Comparisons == {CmpA, CmpB}
Connectives == {<<" ", "A", "N", "D", " ">>, <<" ", "O", "R", " ">>}
ChainTexts ==
    {Concat(<<A, c1, B, c2, C, c3, D>>) :
        <<A, B, C, D>> \in Comparisons \X Comparisons \X Comparisons \X Comparisons,
        <<c1, c2, c3>> \in Connectives \X Connectives \X Connectives}
GroupTexts ==
    UNION {{Concat(<<<<"(">>, A, c1, B, <<")">>, c2, C>>),
            Concat(<<A, c1, <<"(">>, B, c2, C, <<")">>>>),
            Concat(<<<<"(", "(">>, A, c1, B, <<")", ")">>, c2, C>>),
            Concat(<<<<"(">>, A, c1, <<"(">>, B, c2, C, <<")", ")">>>>)} :
        <<A, B, C>> \in Comparisons \X Comparisons \X Comparisons,
        <<c1, c2>> \in Connectives \X Connectives}

(* field op literal, for the literals of every type *)
Age == <<"a", "g", "e">>
Huge == [i \in 1..(DblMaxDigits + 1) |-> "1"]
NumberTexts ==
    {<<"1", "8">>, <<"1", "8", ".", "5">>, <<"0">>, <<"-", "3">>, <<"4", "2", ".", "0">>,
     <<"0", ".", "5">>, Huge}
StringContents ==
    {<<"1", "8">>, <<"1", "8", ".", "5">>, <<"t", "r", "u", "e">>, <<"Y", "e", "s">>,
     <<"m", "a", "y", "b", "e">>, <<>>, <<"0">>, <<"N", "O">>, <<"x">>, <<"i", "n", "f">>,
     <<".", "*">>, <<"^", "(", "a", "|", "b", ")", "$">>, <<"a", "\\", "\\", "d", "+">>}
BooleanTexts == {<<"t", "r", "u", "e">>, <<"F", "a", "l", "s", "e">>}
Quoted(s) == <<"\"">> \o s \o <<"\"">>
LiteralTexts == NumberTexts \cup {Quoted(s) : s \in StringContents} \cup BooleanTexts
TextKeywords ==
    {<<"c", "o", "n", "t", "a", "i", "n", "s">>,
     <<"s", "t", "a", "r", "t", "s", "w", "i", "t", "h">>,
     <<"e", "n", "d", "s", "w", "i", "t", "h">>}
LiteralOperators == OPERATORS \cup TextKeywords
NullChecks ==
    {<<"i", "s", " ", "n", "u", "l", "l">>, <<"i", "s", " ", "n", "o", "t", " ", "n", "u", "l", "l">>,
     <<"i", "s", " ", "e", "m", "p", "t", "y">>, <<"i", "s", " ", "n", "o", "t", " ", "e", "m", "p", "t", "y">>}
LiteralTextsOf ==
    {Concat(<<Age, <<" ">>, op, <<" ">>, lit>>) : op \in LiteralOperators, lit \in LiteralTexts}
    \cup {Concat(<<Age, <<" ">>, chk>>) : chk \in NullChecks}

(* the expressions of the specification's scenarios *)
ScenarioTexts ==
    {<<"a", "=", "1", " ", "A", "N", "D", " ", "b", "=", "2", " ", "O", "R", " ",
       "c", "=", "3", " ", "A", "N", "D", " ", "d", "=", "4">>,
     <<"(", "a", "=", "1", " ", "O", "R", " ", "b", "=", "2", ")", " ", "A", "N", "D", " ",
       "c", "=", "3">>,
     <<"s", "t", "a", "t", "u", "s", " ", "@", " ", "a", "c", "t", "i", "v", "e">>,
     <<"s", "t", "a", "t", "u", "s", " ", "=">>,
     <<"(", "s", "t", "a", "t", "u", "s", " ", "=", " ", "\"", "x", "\"">>,
     <<"s", "t", "a", "t", "u", "s">>,
     <<" ", TAB, " ">>}

(* a word in lower case, in upper case, capitalised and in mixed case *)
upper_char(c) ==
    IF \E i \in DOMAIN LowerLetters : LowerLetters[i] = c
    THEN UpperLetters[CHOOSE i \in DOMAIN LowerLetters : LowerLetters[i] = c]
    ELSE c
CaseForms(word) ==
    {word,
     [i \in DOMAIN word |-> upper_char(word[i])],
     [i \in DOMAIN word |-> IF i = 1 THEN upper_char(word[i]) ELSE word[i]],
     [i \in DOMAIN word |-> IF i % 2 = 0 THEN upper_char(word[i]) ELSE word[i]]}

(* expressions whose connective, keywords or boolean literal are written   *)
(* in each letter case, with the AST of the lower-case expression          *)
Number1 == [t |-> "float", kind |-> "finite", neg |-> FALSE, mant |-> 1, frac |-> 0]
Number2 == [t |-> "float", kind |-> "finite", neg |-> FALSE, mant |-> 2, frac |-> 0]
FieldA == <<"a">>
Case(text, node) == [text |-> text, node |-> node]
ConnectiveCases ==
    {Case(Concat(<<<<"a", "=", "1", " ">>, w, <<" ", "b", "=", "2">>>>),
          [type |-> IF Len(w) = 3 THEN "and" ELSE "or", left |-> Comparison(FieldA, <<"=">>, Number1),
           right |-> Comparison(<<"b">>, <<"=">>, Number2)]) :
        w \in CaseForms(<<"a", "n", "d">>) \cup CaseForms(<<"o", "r">>)}
TextKeywordCases ==
    {Case(Concat(<<FieldA, <<" ">>, w, <<" ", "\"", "x", "\"">>>>),
          Comparison(FieldA, lower(w), PyStr(<<"x">>))) :
        w \in UNION {CaseForms(k) : k \in TextKeywords}}
NullCheckCases ==
    {Case(Concat(<<FieldA, <<" ">>, is, <<" ">>, what>>),
          Comparison(FieldA, <<"i", "s", "_">> \o lower(what), PyNone)) :
        is \in CaseForms(<<"i", "s">>),
        what \in CaseForms(<<"n", "u", "l", "l">>) \cup CaseForms(<<"e", "m", "p", "t", "y">>)}
    \cup
    {Case(Concat(<<FieldA, <<" ">>, is, <<" ">>, not, <<" ">>, what>>),
          Comparison(FieldA, <<"i", "s", "_", "n", "o", "t", "_">> \o lower(what), PyNone)) :
        is \in CaseForms(<<"i", "s">>), not \in CaseForms(<<"n", "o", "t">>),
        what \in CaseForms(<<"n", "u", "l", "l">>) \cup CaseForms(<<"e", "m", "p", "t", "y">>)}
BooleanCases ==
    {Case(<<"a", " ", "=", " ">> \o w, Comparison(FieldA, <<"=">>, PyBool(TRUE))) :
        w \in CaseForms(<<"t", "r", "u", "e">>)}
    \cup
    {Case(<<"a", " ", "=", " ">> \o w, Comparison(FieldA, <<"=">>, PyBool(FALSE))) :
        w \in CaseForms(<<"f", "a", "l", "s", "e">>)}
KeywordCases == ConnectiveCases \cup TextKeywordCases \cup NullCheckCases \cup BooleanCases

(* texts of digits, points and minus signs, and the number scenarios *)
NumberScanTexts ==
    {<<"a", "=">> \o t : t \in SeqsUpTo({"1", "0", "-", "."}, MaxTextLen)}
    \cup {<<"p", "r", "i", "c", "e", " ", ">", "=", " ", "9", ".", "9", "9">>,
          <<"a", " ", "=", " ", "4", "2">>, <<"a", " ", "=", " ", "4", "2", ".", "0">>,
          <<"1", "-", "2">>, <<"a", "=", "1", SUP2>>}

(* strings of either quote over letters, quotes and backslashes, closed or *)
(* not, and the quoting scenario name = "O\"Brien"                         *)
QuoteTexts ==
    {<<"a", "=", q>> \o t : q \in {"\"", "'"}, t \in SeqsUpTo({"x", "\"", "'", "\\"}, MaxTextLen)}
    \cup {<<"n", "a", "m", "e", " ", "=", " ", "\"", "O", "\\", "\"", "B", "r", "i", "e", "n", "\"">>}

(* the entries of a database: what a document may hold for a field *)
StoredValues ==
    {PyNone, PyStr(<<>>), PyStr(<<"x">>), PyInt(FALSE, 0), PyBool(FALSE), PyList(<<>>),
     PyList(<<PyNone>>), PyList(<<PyStr(<<>>)>>)}
Values == <<"v", "a", "l", "u", "e", "s">>
Documents(field) ==
    {PyDict(<<>>), PyDict(<< <<Values, PyDict(<<>>)>> >>)}
    \cup {PyDict(<< <<Values, PyDict(<< <<field, v>> >>)>> >>) : v \in StoredValues}

(* expressions with a grammar error and, after it, a character no token    *)
(* starts with                                                             *)
ErrorOrderTexts ==
    {<<"s", "t", "a", "t", "u", "s", " ", "=", " ", "=", " ", "@">>, <<"a", " ", "=", " ", "@">>,
     <<"(", " ", "@">>, <<"a", " ", "A", "N", "D", " ", "@">>, <<"a", " ", "i", "s", " ", "@">>,
     <<")", " ", "@">>, <<"a", "=", "1", " ", "b", "=", "2", " ", "@">>, <<"a", " ", "!", " ", "@">>,
     <<"@", " ", "a", " ", "=">>, <<"s", "t", "a", "t", "u", "s", " ", "=", " ", "=">>}

(* A c B c C for the primaries A, B, C: a comparison or a group *)
GroupOr == Concat(<<<<"(">>, CmpA, <<" ", "O", "R", " ">>, CmpB, <<")">>>>)
GroupAnd == Concat(<<<<"(">>, CmpA, <<" ", "A", "N", "D", " ">>, CmpB, <<")">>>>)
Primaries == {CmpA, CmpB, GroupOr, GroupAnd}
ChainOfThreeTexts ==
    {Concat(<<A, c, B, c, C>>) :
        <<A, B, C>> \in Primaries \X Primaries \X Primaries, c \in Connectives}

(* identifiers of letters in both cases, digits, _ - and . *)
IdentifierTexts ==
    SeqsUpTo({"a", "N", "_", "-", ".", "1"}, MaxTextLen)
    \cup {<<"u", "s", "e", "r", ".", "f", "i", "r", "s", "t", "-", "n", "a", "m", "e">>,
          <<"u", "s", "e", "r", ".", "f", "i", "r", "s", "t", "-", "n", "a", "m", "e", " ", "=", " ", "1">>,
          <<"N", "a", "m", "e">>, <<"n", "a", "m", "e">>, <<"N", "A", "M", "E">>,
          <<"n", "u", "l", "l", "s">>, <<"i", "s", "_", "n", "u", "l", "l">>, <<"A", "n", "d", "1">>,
          <<"o", "r", ".">>, <<"T", "R", "U", "E">>, <<"n", "o", "t", "-">>, <<"x", SUP2, "y">>,
          <<"N", "a", "m", "e", "=", "n", "a", "m", "e">>}

(* texts of operator characters *)
OperatorTexts == SeqsUpTo({"=", "!", ">", "<", "a", " "}, MaxTextLen)

(* a is, followed by at most two of these words *)
IsWords ==
    {<<"n", "u", "l", "l">>, <<"e", "m", "p", "t", "y">>, <<"n", "o", "t">>, <<"i", "s">>, <<"x">>,
     <<"1">>, <<"\"", "n", "u", "l", "l", "\"">>, <<"=">>, <<"(">>, <<"t", "r", "u", "e">>,
     <<"a", "n", "d">>}
IsTexts ==
    {<<"a", " ", "i", "s">>}
    \cup {Concat(<<<<"a", " ", "i", "s", " ">>, w>>) : w \in IsWords}
    \cup {Concat(<<<<"a", " ", "i", "s", " ">>, w1, <<" ">>, w2>>) : w1 \in IsWords, w2 \in IsWords}

(* expressions with tokens after a complete expression, and with a         *)
(* sub-expression of no tokens                                             *)
ParserScenarioTexts ==
    {<<"a", "=", "1", " ", "b", "=", "2">>, <<"a", "=", "1", ")">>, <<"(", ")">>,
     <<"a", "=", "1", " ", "A", "N", "D">>, <<"O", "R", " ", "a", "=", "1">>,
     <<"a", "=", "1", " ", "A", "N", "D", " ", "(", "b", "=", "2", " ", "O", "R", ")">>,
     <<"a", "=", "1", " ", "O", "R", " ", "O", "R", " ", "b", "=", "2">>,
     <<"a", "=", "1", " ", "1">>, <<"a", " ", "i", "s", " ", "n", "u", "l", "l", " ", "n", "u", "l", "l">>}

(* the texts of the calls that follow the first one *)
RepeatTexts ==
    {CmpA, Concat(<<CmpA, <<" ", "A", "N", "D", " ">>, CmpB>>), <<"a", " ", "=">>,
     <<"(", "b", " ", "i", "s", " ", "n", "u", "l", "l", ")">>, <<"a", "@">>, <<" ">>}

Texts == CharTexts \cup ChunkTexts \cup ChainTexts \cup GroupTexts \cup LiteralTextsOf
         \cup ScenarioTexts \cup {c.text : c \in KeywordCases} \cup NumberScanTexts \cup QuoteTexts \cup RepeatTexts
         \cup IsTexts \cup ErrorOrderTexts \cup ChainOfThreeTexts \cup IdentifierTexts \cup OperatorTexts \cup ParserScenarioTexts

Expressions == {PyNone} \cup {PyStr(s) : s \in Texts}

FieldTypeMaps ==
    {PyNone, PyDict(<<>>),
     PyDict(<< <<<<"a">>, PyStr(INT)>>, <<<<"b">>, PyStr(BOOL)>> >>)}
    \cup {PyDict(<< <<Age, PyStr(type)>> >>) : type \in {STR, INT, DEC, BOOL, <<"D", "A", "T", "E">>}}

----------------------------------------------------------------------------
(* The evaluation of one filter: parse_filter(expression), then            *)
(* ast_to_mongo_query(ast, field_types), as list_entries and               *)
(* filter_entries call them.  pc is the position in that code:             *)
(*   "parse_filter"  at the call of parse_filter                            *)
(*   "tokenize"      at the head of the while loop of Lexer.tokenize        *)
(*   "parse"         the tokens are returned, before Parser.parse           *)
(*   "compile"       the AST is returned, before ast_to_mongo_query         *)
(*   "returned"      the predicate is returned                              *)
(*   "raised"        an exception left the lexer, the parser or the compiler *)

(* results holds, for each text of RepeatTexts, what the calls that have   *)
(* returned so far gave for it; other is a second evaluation that runs at  *)
(* the same time, Idle when there is none.                                 *)
Unseen == [seen |-> FALSE]
NoResults == [t \in RepeatTexts |-> Unseen]
Idle == [pc |-> "idle"]
(* conversion is a call of can_convert_value, NoConversion when there is   *)
(* none                                                                    *)
NoConversion == [pc |-> "idle"]

Init ==
    /\ expression \in Expressions
    /\ pc = "parse_filter"
    /\ pos = 0
    /\ tokens = <<>>
    /\ ast = PyNone
    /\ field_types = PyNone
    /\ query = PyNone
    /\ error = NoError
    /\ results = NoResults
    /\ other = Idle
    /\ conversion = NoConversion

(* parse_filter going on with the Lexer of the call before *)
ParseFilterReusingLexer ==
    /\ pc = "parse_filter"
    /\ IF is_blank(expression)
       THEN /\ ast' = Empty
            /\ pc' = "compile"
       ELSE /\ pc' = "tokenize"
            /\ ast' = ast
    /\ UNCHANGED <<expression, pos, tokens, field_types, query, error, results, other, conversion>>

(* parse_filter up to the construction of the Lexer *)
ParseFilter ==
    /\ pc = "parse_filter"
    /\ IF is_blank(expression)
       THEN /\ ast' = Empty
            /\ pc' = "compile"
       ELSE /\ pc' = "tokenize"
            /\ ast' = ast
    /\ pos' = 0
    /\ tokens' = <<>>
    /\ UNCHANGED <<expression, field_types, query, error, results, other, conversion>>

(* one iteration of the while loop of tokenize that takes the given branch *)
LexIteration(branch) ==
    /\ pos < Len(expression.s)
    /\ skip_whitespace(expression.s, pos) < Len(expression.s)
    /\ lex_branch(expression.s, skip_whitespace(expression.s, pos)) = branch
    /\ \E r \in {tokenize_step(expression.s, pos, tokens)} :
           /\ pos' = r.pos
           /\ tokens' = r.tokens
           /\ error' = r.error
           /\ pc' = IF r.status = "raise" THEN "raised" ELSE "tokenize"
    /\ UNCHANGED <<expression, ast, field_types, query, results, other, conversion>>

LexLParen == pc = "tokenize" /\ LexIteration("lparen")
LexRParen == pc = "tokenize" /\ LexIteration("rparen")
LexString == pc = "tokenize" /\ LexIteration("string")
LexNumber == pc = "tokenize" /\ LexIteration("number")
LexOperator == pc = "tokenize" /\ LexIteration("operator")
LexIdentifier == pc = "tokenize" /\ LexIteration("identifier")
(* the lexer stepping over a character no token starts with *)
LexUnexpectedSkipped ==
    /\ pc = "tokenize"
    /\ pos < Len(expression.s)
    /\ skip_whitespace(expression.s, pos) < Len(expression.s)
    /\ lex_branch(expression.s, skip_whitespace(expression.s, pos)) = "unexpected"
    /\ pos' = skip_whitespace(expression.s, pos) + 1
    /\ UNCHANGED <<expression, pc, tokens, ast, field_types, query, error, results, other, conversion>>

LexUnexpected == pc = "tokenize" /\ LexIteration("unexpected")

(* the loop ends, by its condition or by the break after the whitespace:   *)
(* EOF is appended and the tokens are returned                             *)
(* tokenize returning its tokens without the EOF token *)
LexEndWithoutEof ==
    /\ pc = "tokenize"
    /\ skip_whitespace(expression.s, pos) >= Len(expression.s)
    /\ pos' = skip_whitespace(expression.s, pos)
    /\ pc' = "parse"
    /\ UNCHANGED <<expression, tokens, ast, field_types, query, error, results, other, conversion>>

LexEnd ==
    /\ pc = "tokenize"
    /\ skip_whitespace(expression.s, pos) >= Len(expression.s)
    /\ pos' = skip_whitespace(expression.s, pos)
    /\ tokens' = Append(tokens, EOF)
    /\ pc' = "parse"
    /\ UNCHANGED <<expression, ast, field_types, query, error, results, other, conversion>>

(* Parser(tokens).parse() *)
Parse ==
    /\ pc = "parse"
    /\ \E r \in {parse(tokens)} :
           /\ pos' = r.pos
           /\ IF r.ok
              THEN /\ ast' = r.node
                   /\ pc' = "compile"
                   /\ error' = error
              ELSE /\ error' = r.error
                   /\ pc' = "raised"
                   /\ ast' = ast
    /\ UNCHANGED <<expression, tokens, field_types, query, results, other, conversion>>

(* ast_to_mongo_query(ast, field_types) *)
Compile ==
    /\ pc = "compile"
    /\ \E ft \in FieldTypeMaps :
        \E r \in {ast_to_mongo_query(ast, ft)} :
            /\ field_types' = ft
            /\ IF r.ok
               THEN /\ query' = r.val
                    /\ pc' = "returned"
                    /\ error' = error
               ELSE /\ error' = Raise(r.exc, <<"cannot convert float infinity to integer">>)
                    /\ pc' = "raised"
                    /\ query' = query
    /\ UNCHANGED <<expression, pos, tokens, ast, results, other, conversion>>

Next ==
    \/ ParseFilter
    \/ LexLParen
    \/ LexRParen
    \/ LexString
    \/ LexNumber
    \/ LexOperator
    \/ LexIdentifier
    \/ LexUnexpected
    \/ LexEnd
    \/ Parse
    \/ Compile

Spec == Init /\ [][Next]_vars

----------------------------------------------------------------------------
(* One call after another: when an evaluation has returned or raised, the  *)
(* next request calls parse_filter with its own expression.  The frame of  *)
(* the call that ended is gone; its Lexer and Parser objects are left as   *)
(* they were.                                                              *)

(* what parse_filter gave: the AST, or the exception when there is none *)
Outcome == [seen |-> TRUE, ast |-> ast, error |-> IF ast = PyNone THEN error ELSE NoError]

CallAgain ==
    /\ pc \in {"returned", "raised"}
    /\ \E text \in RepeatTexts : expression' = PyStr(text)
    /\ results' = IF expression.t = "str" /\ expression.s \in RepeatTexts
                  THEN [results EXCEPT ![expression.s] = Outcome]
                  ELSE results
    /\ pc' = "parse_filter"
    /\ ast' = PyNone
    /\ field_types' = PyNone
    /\ query' = PyNone
    /\ error' = NoError
    /\ UNCHANGED <<pos, tokens, other, conversion>>

NextRepeat == Next \/ CallAgain

SpecRepeat == Init /\ [][NextRepeat]_vars

----------------------------------------------------------------------------
(* Two requests at the same time: each runs parse_filter and               *)
(* ast_to_mongo_query in its own thread, with its own expression, Lexer,   *)
(* Parser, AST and field-type map.  The variables hold the evaluation of   *)
(* the thread that runs; other holds the evaluation of the thread that     *)
(* waits.  The interpreter may switch between the threads at any step.     *)

ConcurrentTexts ==
    {<<"(", "a", "=", "\"", "x", "\"", ")", " ", "o", "r", " ", "b", " ", "i", "s", " ",
       "n", "u", "l", "l">>,
     <<"a", "=", "1">>, <<"a", " ", "@", " ", "1">>, <<"a", " ", "=">>, <<" ">>}

(* the evaluation of a request that has not started *)
Call(expr) ==
    [expression |-> expr, pc |-> "parse_filter", pos |-> 0, tokens |-> <<>>, ast |-> PyNone,
     field_types |-> PyNone, query |-> PyNone, error |-> NoError]

(* the evaluation of the thread that runs *)
Running ==
    [expression |-> expression, pc |-> pc, pos |-> pos, tokens |-> tokens, ast |-> ast,
     field_types |-> field_types, query |-> query, error |-> error]

InitConcurrent ==
    /\ expression \in {PyStr(text) : text \in ConcurrentTexts}
    /\ pc = "parse_filter"
    /\ pos = 0
    /\ tokens = <<>>
    /\ ast = PyNone
    /\ field_types = PyNone
    /\ query = PyNone
    /\ error = NoError
    /\ results = NoResults
    /\ other \in {Call(PyStr(text)) : text \in ConcurrentTexts}
    /\ conversion = NoConversion

(* a thread switch under which the two Lexers have one scan position *)
SwitchSharingPos ==
    /\ other # Idle
    /\ other' = Running
    /\ expression' = other.expression
    /\ pc' = other.pc
    /\ tokens' = other.tokens
    /\ ast' = other.ast
    /\ field_types' = other.field_types
    /\ query' = other.query
    /\ error' = other.error
    /\ UNCHANGED <<pos, results, conversion>>

(* the interpreter switches to the other thread *)
Switch ==
    /\ other # Idle
    /\ other' = Running
    /\ expression' = other.expression
    /\ pc' = other.pc
    /\ pos' = other.pos
    /\ tokens' = other.tokens
    /\ ast' = other.ast
    /\ field_types' = other.field_types
    /\ query' = other.query
    /\ error' = other.error
    /\ UNCHANGED <<results, conversion>>

NextConcurrent == Next \/ Switch

SpecConcurrent == InitConcurrent /\ [][NextConcurrent]_vars


----------------------------------------------------------------------------
(* The Lexer and the Parser called on a text without parse_filter:         *)
(* Parser(Lexer(text).tokenize()).parse(), where a text of no characters   *)
(* or of whitespace only gives the token list of the one EOF token.        *)

ParserTexts == CharTexts \cup ChunkTexts \cup ParserScenarioTexts \cup {<<" ", TAB, " ">>}

InitParser ==
    /\ expression \in {PyStr(text) : text \in ParserTexts}
    /\ pc = "tokenize"
    /\ pos = 0
    /\ tokens = <<>>
    /\ ast = PyNone
    /\ field_types = PyNone
    /\ query = PyNone
    /\ error = NoError
    /\ results = NoResults
    /\ other = Idle
    /\ conversion = NoConversion

NextParser ==
    \/ LexLParen
    \/ LexRParen
    \/ LexString
    \/ LexNumber
    \/ LexOperator
    \/ LexIdentifier
    \/ LexUnexpected
    \/ LexEnd
    \/ Parse
    \/ Compile

SpecParser == InitParser /\ [][NextParser]_vars

----------------------------------------------------------------------------
(* A call of can_convert_value on the value an entry stores for a field,   *)
(* as the field update makes it for each entry.                            *)

ConversionTexts ==
    {<<>>, <<" ">>, <<"x">>, <<"1", "2">>, <<" ", "7", " ">>, <<"-", "3">>, <<"1", ".", "5">>,
     <<"1", ".", "0">>, <<"1", "e", "2">>, <<"i", "n", "f">>,
     <<"-", "I", "n", "f", "i", "n", "i", "t", "y">>, <<"1", "e", "9", "9", "9">>,
     <<"n", "a", "n">>, <<"t", "r", "u", "e">>, <<" ", "Y", "E", "S">>, <<"0">>, <<"N", "o">>,
     <<"2", "0", "2", "4", "-", "0", "1", "-", "3", "1">>,
     <<"2", "0", "2", "4", "-", "0", "1", "-", "3", "1", "T", "0", "9">>,
     <<"2", "0", "2", "4", "-", "1", "-", "3", "1">>,
     <<"a", "@", "b", ".", "c">>, <<"a", "@", "b">>,
     <<"h", "t", "t", "p", ":", "/", "/", "x">>, <<"h", "t", "t", "p", "s", ":", "/", "/", "x">>,
     <<"f", "t", "p", ":", "/", "/", "x">>}

ConversionValues ==
    {PyNone, PyBool(TRUE), PyBool(FALSE), PyInt(FALSE, 0), PyInt(FALSE, 1), PyInt(TRUE, 3),
     PyFloat(FALSE, 0, 0), PyFloat(FALSE, 2, 0), PyFloat(TRUE, 15, 1), PyInf(FALSE), PyInf(TRUE),
     PyNan, PyList(<<>>), PyList(<<PyInt(FALSE, 1), PyStr(<<"x">>)>>), PyDict(<<>>),
     PyDict(<< <<<<"k">>, PyNone>> >>)}
    \cup {PyStr(text) : text \in ConversionTexts}

FieldTypes == {STR, INT, DEC, BOOL, DATE, EMAIL, URL, DICT, LIST, <<"X", "X">>}

InitConvert ==
    /\ expression = PyNone
    /\ pc = "idle"
    /\ pos = 0
    /\ tokens = <<>>
    /\ ast = PyNone
    /\ field_types = PyNone
    /\ query = PyNone
    /\ error = NoError
    /\ results = NoResults
    /\ other = Idle
    /\ conversion \in [pc : {"call"}, value : ConversionValues, from_type : {STR, INT},
                       to_type : FieldTypes, result : {PyNone}, error : {"none"}]

CanConvertValue ==
    /\ conversion.pc = "call"
    /\ \E r \in {can_convert_value(conversion.value, conversion.from_type, conversion.to_type)} :
           conversion' = [conversion EXCEPT !.pc = IF r.ok THEN "returned" ELSE "raised",
                                            !.result = r.val,
                                            !.error = r.exc]
    /\ UNCHANGED <<expression, pc, pos, tokens, ast, field_types, query, error, results, other>>

NextConvert == CanConvertValue

SpecConvert == InitConvert /\ [][NextConvert]_vars

----------------------------------------------------------------------------
(* Properties *)

HasAst == pc \in {"compile", "returned"}
Done == pc \in {"returned", "raised"}

(* the step-by-step evaluation agrees with parse_filter as a function *)
StepsAgreeWithParseFilter ==
    /\ pc = "compile" => parse_filter(expression) = Parsed(ast, pos)
    /\ pc = "raised" /\ ast = PyNone => /\ ~parse_filter(expression).ok
                                       /\ parse_filter(expression).error = error

NodeA == Comparison(<<"a">>, <<"=">>, PyFloat(FALSE, 1, 0))
NodeB == Comparison(<<"b">>, <<"i", "s", "_", "n", "u", "l", "l">>, PyNone)
NodeOf(text) == IF text = CmpA THEN NodeA ELSE NodeB
Eq(field, n) == Comparison(field, <<"=">>, PyFloat(FALSE, n, 0))

AND == <<" ", "A", "N", "D", " ">>
OR == <<" ", "O", "R", " ">>

RECURSIVE OrUnderAnd(_)
OrUnderAnd(node) ==
    /\ node.type \in {"and", "or"}
    /\ \/ node.type = "and" /\ "or" \in {node.left.type, node.right.type}
       \/ OrUnderAnd(node.left)
       \/ OrUnderAnd(node.right)

PrecedenceScenario ==
    <<"a", "=", "1", " ", "A", "N", "D", " ", "b", "=", "2", " ", "O", "R", " ",
      "c", "=", "3", " ", "A", "N", "D", " ", "d", "=", "4">>

(* C1: AND binds tighter than OR.  Parsing A AND B OR C AND D, for any     *)
(* comparisons A, B, C, D, never raises and yields Or{And{A,B}, And{C,D}}  *)
(* (so for a=1 AND b=2 OR c=3 AND d=4), and the AST of an expression       *)
(* without parentheses never has an Or node as a child of an And node.     *)
C1_AndBindsTighter ==
    expression # PyNone =>
        /\ \A A \in Comparisons, B \in Comparisons, C \in Comparisons, D \in Comparisons :
              expression.s = Concat(<<A, AND, B, OR, C, AND, D>>) =>
                  /\ pc # "raised"
                  /\ HasAst => ast = Or(And(NodeOf(A), NodeOf(B)), And(NodeOf(C), NodeOf(D)))
        /\ expression.s = PrecedenceScenario =>
              /\ pc # "raised"
              /\ HasAst => ast = Or(And(Eq(<<"a">>, 1), Eq(<<"b">>, 2)),
                                    And(Eq(<<"c">>, 3), Eq(<<"d">>, 4)))
        /\ HasAst /\ "(" \notin Range(expression.s) => ~OrUnderAnd(ast)

C1_Witness ==
    /\ pc = "compile"
    /\ expression = PyStr(PrecedenceScenario)
    /\ ast.type = "or" /\ ast.left.type = "and" /\ ast.right.type = "and"

GroupScenario ==
    <<"(", "a", "=", "1", " ", "O", "R", " ", "b", "=", "2", ")", " ", "A", "N", "D", " ",
      "c", "=", "3">>

(* C2: parentheses override precedence.  Parsing (A OR B) AND C yields     *)
(* And{Or{A,B}, C}, also with the group parenthesised twice; and whenever  *)
(* an expression parses to an AST, the expression in parentheses, and in   *)
(* two pairs of parentheses, parses to that same AST.                      *)
C2_ParenthesesOverride ==
    expression # PyNone =>
        /\ \A A \in Comparisons, B \in Comparisons, C \in Comparisons :
              expression.s \in {Concat(<<<<"(">>, A, OR, B, <<")">>, AND, C>>),
                                Concat(<<<<"(", "(">>, A, OR, B, <<")", ")">>, AND, C>>)} =>
                  /\ pc # "raised"
                  /\ HasAst => ast = And(Or(NodeOf(A), NodeOf(B)), NodeOf(C))
        /\ expression.s = GroupScenario =>
              /\ pc # "raised"
              /\ HasAst => ast = And(Or(Eq(<<"a">>, 1), Eq(<<"b">>, 2)), Eq(<<"c">>, 3))
        /\ pc = "compile" /\ ~is_blank(expression) =>
              /\ parse_filter(PyStr(<<"(">> \o expression.s \o <<")">>)).ok
              /\ parse_filter(PyStr(<<"(">> \o expression.s \o <<")">>)).node = ast
              /\ parse_filter(PyStr(<<"(", "(">> \o expression.s \o <<")", ")">>)).ok
              /\ parse_filter(PyStr(<<"(", "(">> \o expression.s \o <<")", ")">>)).node = ast

C2_Witness ==
    /\ pc = "compile"
    /\ expression = PyStr(GroupScenario)
    /\ ast.type = "and" /\ ast.left.type = "or"

BadCharacterScenario ==
    <<"s", "t", "a", "t", "u", "s", " ", "@", " ", "a", "c", "t", "i", "v", "e">>
MissingValueScenario == <<"s", "t", "a", "t", "u", "s", " ", "=">>
UnbalancedScenario == <<"(", "s", "t", "a", "t", "u", "s", " ", "=", " ", "\"", "x", "\"">>
NoOperatorScenario == <<"s", "t", "a", "t", "u", "s">>

Count(toks, type) == Cardinality({i \in DOMAIN toks : toks[i].type = type})

(* C3: the four malformed inputs raise FilterParseError with a non-empty   *)
(* message: status @ active (a character that starts no token), status =  *)
(* (no value after the operator), (status = "x" (no closing parenthesis)   *)
(* and status (no operator after the field).  Their evaluation goes on     *)
(* until it raises and never returns an AST; and no expression of each     *)
(* kind parses: an AST is returned only if the opening and closing         *)
(* parentheses balance, every operator is followed by a value and every    *)
(* field by an operator or a keyword.                                      *)
C3_MalformedInputsRaise ==
    /\ /\ expression # PyNone
       /\ expression.s \in {BadCharacterScenario, MissingValueScenario, UnbalancedScenario,
                            NoOperatorScenario}
       => /\ ~HasAst
          /\ pc # "raised" => ENABLED Next
          /\ pc = "raised" =>
                /\ error.kind = "FilterParseError"
                /\ error.msg # <<>> /\ error.msg[1] # ""
                /\ error.msg[1] =
                     CASE expression.s = BadCharacterScenario -> "Unexpected character: "
                       [] expression.s = MissingValueScenario -> "Expected value, got "
                       [] expression.s = UnbalancedScenario -> "Expected "
                       [] OTHER -> "Expected operator after field '"
    /\ pc = "compile" /\ ~is_blank(expression) =>
          /\ Count(tokens, "LPAREN") = Count(tokens, "RPAREN")
          /\ \A i \in 1..(Len(tokens) - 1) :
                /\ tokens[i].type = "OPERATOR" =>
                      tokens[i + 1].type \in {"STRING", "NUMBER", "BOOLEAN"}
                /\ tokens[i].type = "FIELD" => tokens[i + 1].type \in {"OPERATOR", "KEYWORD"}

C3_Witness ==
    /\ pc = "raised"
    /\ expression = PyStr(MissingValueScenario)
    /\ error = Raise("FilterParseError", <<"Expected value, got ", "EOF">>)


(* C4: whatever the text, parse_filter returns an AST or raises            *)
(* FilterParseError: no other exception leaves the lexer or the parser.    *)
C4_OnlyFilterParseError ==
    pc = "raised" /\ ast = PyNone => error.kind = "FilterParseError"

(* C5: ast_to_mongo_query never raises, whatever the AST parse returned    *)
(* and whatever the field-type map: once there is an AST, no exception.    *)
C5_CompileNeverRaises == pc = "raised" => ast = PyNone

Blank(expr) == expr = PyNone \/ \A i \in DOMAIN expr.s : expr.s[i] \in {" ", TAB}

(* C6: an absent, empty or whitespace-only expression parses to the Empty  *)
(* node and never raises, and filter_entries returns the predicate {} for  *)
(* it; compiling Empty yields {}.                                          *)
C6_BlankIsEmpty ==
    /\ Blank(expression) =>
          /\ pc # "raised"
          /\ pc # "parse_filter" => ast = Empty
          /\ pc = "returned" => query = PyDict(<<>>)
          /\ ~Done => ENABLED Next
    /\ pc = "returned" /\ ast = Empty => query = PyDict(<<>>)

C6_Witness ==
    /\ pc = "returned"
    /\ expression = PyStr(<<" ", TAB, " ">>)
    /\ ast = Empty
    /\ query = PyDict(<<>>)

(* the declared type of field in the map ft, <<>> when it has none *)
DeclaredType(ft, field) ==
    IF ft.t = "dict" /\ \E i \in DOMAIN ft.items : ft.items[i][1] = field
    THEN ft.items[CHOOSE i \in DOMAIN ft.items : ft.items[i][1] = field][2].s
    ELSE <<>>

(* the literal embedded in the predicate q of a comparison with operator op *)
Embedded(op, q) == IF op = <<"=">> THEN q.items[1][2] ELSE q.items[1][2].items[1][2]

IsNumber(value) == value.t = "float" /\ value.kind = "finite"

(* a comparison of the six comparison operators with a literal *)
ComparesLiteral(node) == node # PyNone /\ node.type = "comparison" /\ node.operator \in OPERATORS

RECURSIVE NumbersCoerced(_, _, _)
NumbersCoerced(node, q, ft) ==
    CASE node.type \in {"and", "or"} ->
            /\ NumbersCoerced(node.left, q.items[1][2].items[1], ft)
            /\ NumbersCoerced(node.right, q.items[1][2].items[2], ft)
      [] ComparesLiteral(node) /\ node.value.t = "float" ->
            /\ DeclaredType(ft, node.field) = INT /\ IsNumber(node.value)
                  /\ node.value.frac = 0 =>
                  Embedded(node.operator, q) =
                      [t |-> "int", neg |-> node.value.neg /\ node.value.mant # 0,
                       mag |-> node.value.mant]
            /\ DeclaredType(ft, node.field) = DEC =>
                  Embedded(node.operator, q) = node.value
      [] OTHER -> TRUE

(* C7: for a field declared INT, a number literal with an integral value   *)
(* is embedded in the predicate as an integer, and for a field declared    *)
(* DEC a number literal is embedded as a float, under each of the six      *)
(* comparison operators = != > < >= <=.                                    *)
C7_NumberFollowsDeclaredType ==
    pc = "returned" => NumbersCoerced(ast, query, field_types)

C7_Witness ==
    /\ pc = "returned"
    /\ expression = PyStr(<<"a", "g", "e", " ", "=", " ", "1", "8">>)
    /\ field_types = PyDict(<< <<Age, PyStr(INT)>> >>)
    /\ query = PyDict(<< <<field_key(Age), [t |-> "int", neg |-> FALSE, mag |-> 18]>> >>)

(* C8: for a field declared INT, a number literal with a non-zero          *)
(* fractional part is embedded in the predicate as it is, never truncated. *)
C8_NoSilentTruncation ==
    /\ pc = "returned"
    /\ ComparesLiteral(ast) /\ IsNumber(ast.value) /\ ast.value.frac > 0
    /\ DeclaredType(field_types, ast.field) = INT
    => Embedded(ast.operator, query) = ast.value

TrueWords == {<<"t", "r", "u", "e">>, <<"1">>, <<"y", "e", "s">>}
FalseWords == {<<"f", "a", "l", "s", "e">>, <<"0">>, <<"n", "o">>, <<>>}

(* C9: for a field declared BOOL, a boolean literal passes through, a      *)
(* number literal is coerced by truthiness, a string literal that is one   *)
(* of true, 1, yes in any letter case becomes true and one of false, 0,    *)
(* no or the empty string false, and any other string literal is embedded  *)
(* uncoerced.                                                              *)
C9_BoolCoercion ==
    /\ pc = "returned"
    /\ ComparesLiteral(ast)
    /\ DeclaredType(field_types, ast.field) = BOOL
    => CASE ast.value.t = "bool" -> Embedded(ast.operator, query) = ast.value
         [] ast.value.t = "float" ->
               Embedded(ast.operator, query) =
                   [t |-> "bool", b |-> ast.value.kind # "finite" \/ ast.value.mant # 0]
         [] ast.value.t = "str" /\ lower(ast.value.s) \in TrueWords ->
               Embedded(ast.operator, query) = [t |-> "bool", b |-> TRUE]
         [] ast.value.t = "str" /\ lower(ast.value.s) \in FalseWords ->
               Embedded(ast.operator, query) = [t |-> "bool", b |-> FALSE]
         [] OTHER -> Embedded(ast.operator, query) = ast.value

(* C10: for a field that the field-type map does not hold, compilation     *)
(* does not raise and the six comparison operators compile to a single-key *)
(* predicate on "values." + field with the literal embedded unchanged:     *)
(* f = v to {values.f: v}, and != > < >= <= to {values.f: {op: v}} with    *)
(* op $ne, $gt, $lt, $gte, $lte.                                           *)
C10_UntypedFieldComparison ==
    /\ ComparesLiteral(ast) /\ Done /\ DeclaredType(field_types, ast.field) = <<>> =>
          /\ pc = "returned"
          /\ query.t = "dict" /\ Len(query.items) = 1
          /\ query.items[1][1] = <<"v", "a", "l", "u", "e", "s", ".">> \o ast.field
          /\ query.items[1][2] =
               CASE ast.operator = <<"=">> -> ast.value
                 [] ast.operator = <<"!", "=">> ->
                       [t |-> "dict", items |-> << <<<<"$", "n", "e">>, ast.value>> >>]
                 [] ast.operator = <<">">> ->
                       [t |-> "dict", items |-> << <<<<"$", "g", "t">>, ast.value>> >>]
                 [] ast.operator = <<"<">> ->
                       [t |-> "dict", items |-> << <<<<"$", "l", "t">>, ast.value>> >>]
                 [] ast.operator = <<">", "=">> ->
                       [t |-> "dict", items |-> << <<<<"$", "g", "t", "e">>, ast.value>> >>]
                 [] ast.operator = <<"<", "=">> ->
                       [t |-> "dict", items |-> << <<<<"$", "l", "t", "e">>, ast.value>> >>]

C10_Witness ==
    /\ pc = "returned"
    /\ expression = PyStr(<<"a", "g", "e", " ", ">", "=", " ", "1", "8", ".", "5">>)
    /\ field_types = PyDict(<<>>)
    /\ query = PyDict(<< <<field_key(Age),
                           PyDict(<< <<Key_gte, [t |-> "float", kind |-> "finite", neg |-> FALSE,
                                                 mant |-> 185, frac |-> 1]>> >>)>> >>)


(* the characters a regular expression reads as operators *)
Metacharacters == {".", "^", "$", "*", "+", "?", "{", "}", "[", "]", "\\", "|", "(", ")"}

(* the number of backslashes that end right before position i of s *)
BackslashRun(s, i) ==
    CHOOSE n \in 0..(i - 1) :
        /\ \A j \in (i - n)..(i - 1) : s[j] = "\\"
        /\ n = i - 1 \/ s[i - n - 1] # "\\"

(* position i of s follows a backslash that escapes it *)
IsEscaped(s, i) == BackslashRun(s, i) % 2 = 1

(* s without the backslashes that escape the next character *)
Unescaped(s) ==
    LET kept == {i \in DOMAIN s : s[i] # "\\" \/ IsEscaped(s, i)}
        nth(k) == CHOOSE i \in kept : Cardinality({j \in kept : j < i}) = k - 1
    IN  [k \in 1..Cardinality(kept) |-> s[nth(k)]]

(* the pattern p stands for a fixed text: every metacharacter of p is      *)
(* escaped by a backslash and no backslash makes a character class         *)
MatchesTextOnly(p) ==
    /\ \A i \in DOMAIN p : p[i] \in Metacharacters \ {"\\"} => IsEscaped(p, i)
    /\ \A i \in DOMAIN p : IsEscaped(p, i) => ~isalnum(p[i])
    /\ p # <<>> /\ p[Len(p)] = "\\" => IsEscaped(p, Len(p))

Contains == <<"c", "o", "n", "t", "a", "i", "n", "s">>
StartsWith == <<"s", "t", "a", "r", "t", "s", "w", "i", "t", "h">>
EndsWith == <<"e", "n", "d", "s", "w", "i", "t", "h">>

(* the comparison of a pattern operator with a literal *)
MatchesPattern(node) ==
    node # PyNone /\ node.type = "comparison" /\ node.operator \in {Contains, StartsWith, EndsWith}

(* q is the case-insensitive pattern predicate on values.field *)
IsPatternPredicate(q, field) ==
    /\ q.t = "dict" /\ Len(q.items) = 1
    /\ q.items[1][1] = <<"v", "a", "l", "u", "e", "s", ".">> \o field
    /\ q.items[1][2].t = "dict" /\ Len(q.items[1][2].items) = 2
    /\ q.items[1][2].items[1][1] = <<"$", "r", "e", "g", "e", "x">>
    /\ q.items[1][2].items[1][2].t = "str"
    /\ q.items[1][2].items[2] = << <<"$", "o", "p", "t", "i", "o", "n", "s">>, [t |-> "str", s |-> <<"i">>] >>

PatternOf(q) == q.items[1][2].items[1][2].s

(* the pattern without the anchor of its operator, <<"?">> when the anchor *)
(* is missing                                                              *)
PatternBody(op, p) ==
    CASE op = Contains -> p
      [] op = StartsWith -> IF p # <<>> /\ p[1] = "^" THEN Tail(p) ELSE <<"?">>
      [] op = EndsWith ->
            IF p # <<>> /\ p[Len(p)] = "$" /\ ~IsEscaped(p, Len(p))
            THEN SubSeq(p, 1, Len(p) - 1) ELSE <<"?">>

(* the pattern operators compile to an anchored case-insensitive pattern   *)
(* whose body stands for a fixed text                                      *)
PatternIsEscaped ==
    pc = "returned" /\ MatchesPattern(ast) =>
        /\ IsPatternPredicate(query, ast.field)
        /\ MatchesTextOnly(PatternBody(ast.operator, PatternOf(query)))

(* C11: contains, startswith and endswith compile to a case-insensitive    *)
(* pattern predicate on "values." + field whose pattern is the literal     *)
(* with every regex-special character escaped, so that it matches the text *)
(* of the literal only: alone for contains, after a start anchor for       *)
(* startswith, before an end anchor for endswith.                          *)
C11_PatternIsEscapedLiteral ==
    pc = "returned" /\ MatchesPattern(ast) =>
        /\ IsPatternPredicate(query, ast.field)
        /\ MatchesTextOnly(PatternBody(ast.operator, PatternOf(query)))
        /\ ast.value.t = "str" =>
              Unescaped(PatternBody(ast.operator, PatternOf(query))) = ast.value.s


IsNull == <<"i", "s", "_", "n", "u", "l", "l">>
IsNotNull == <<"i", "s", "_", "n", "o", "t", "_", "n", "u", "l", "l">>
IsEmpty == <<"i", "s", "_", "e", "m", "p", "t", "y">>
IsNotEmpty == <<"i", "s", "_", "n", "o", "t", "_", "e", "m", "p", "t", "y">>

(* the AST is the comparison of one field with the operator op *)
Compares(node, op) == node # PyNone /\ node.type = "comparison" /\ node.operator = op

ValuesKey(field) == <<"v", "a", "l", "u", "e", "s", ".">> \o field
Cond(field, cond) == [t |-> "dict", items |-> << <<ValuesKey(field), cond>> >>]
Op(name, arg) == [t |-> "dict", items |-> << <<name, arg>> >>]
None == [t |-> "None"]
EmptyString == [t |-> "str", s |-> <<>>]

(* the predicates of the specification for the null and empty checks *)
NullPredicate(field) == Cond(field, None)
EmptyPredicate(field) ==
    Op(<<"$", "o", "r">>,
       [t |-> "list",
        items |-> <<Cond(field, None), Cond(field, EmptyString),
                    Cond(field, Op(<<"$", "e", "x", "i", "s", "t", "s">>, [t |-> "bool", b |-> FALSE]))>>])
NotEmptyPredicate(field) ==
    Op(<<"$", "a", "n", "d">>,
       [t |-> "list",
        items |-> <<Cond(field, Op(<<"$", "n", "e">>, None)),
                    Cond(field, Op(<<"$", "n", "e">>, EmptyString)),
                    Cond(field, Op(<<"$", "e", "x", "i", "s", "t", "s">>, [t |-> "bool", b |-> TRUE]))>>])

(* the document holds the value v for the field, or does not hold the field *)
Holds(doc, field, v) ==
    doc = [t |-> "dict",
           items |-> << <<Values, [t |-> "dict", items |-> << <<field, v>> >>]>> >>]
Lacks(doc, field) == \A v \in StoredValues : ~Holds(doc, field, v)

(* x is null and x is not empty compile to distinct predicates that no     *)
(* document matches both, and x is not empty matches no document that      *)
(* holds the sentinel or the empty string or lacks x                       *)
NullAndNotEmptyExclusive ==
    /\ pc = "returned" /\ Compares(ast, IsNull) => query = NullPredicate(ast.field)
    /\ pc = "returned" /\ Compares(ast, IsNotEmpty) => query = NotEmptyPredicate(ast.field)
    /\ pc = "returned" /\ (Compares(ast, IsNull) \/ Compares(ast, IsNotEmpty)) =>
          /\ NullPredicate(ast.field) # NotEmptyPredicate(ast.field)
          /\ \A doc \in Documents(ast.field) :
                /\ ~(matches(doc, NullPredicate(ast.field))
                     /\ matches(doc, NotEmptyPredicate(ast.field)))
                /\ matches(doc, NotEmptyPredicate(ast.field)) =>
                      /\ ~Holds(doc, ast.field, None)
                      /\ ~Holds(doc, ast.field, EmptyString)
                      /\ ~Lacks(doc, ast.field)

(* C12: x is null compiles to {values.x: None}, which matches only the     *)
(* documents that hold the sentinel for x; x is not empty compiles to a    *)
(* predicate that excludes the sentinel, the empty string and the absence  *)
(* of x; the two predicates are distinct and no document matches both.     *)
C12_NullMatchesSentinelOnly ==
    /\ NullAndNotEmptyExclusive
    /\ pc = "returned" /\ Compares(ast, IsNull) =>
          \A doc \in Documents(ast.field) :
              matches(doc, query) => Holds(doc, ast.field, None)


(* C13: x is empty compiles to the disjunction of x = sentinel, x = "" and *)
(* x absent, x is not empty to the conjunction of their negations, and     *)
(* every document matches exactly one of the two predicates.               *)
C13_EmptyAndNotEmptyComplement ==
    /\ pc = "returned" /\ Compares(ast, IsEmpty) =>
          /\ query = EmptyPredicate(ast.field)
          /\ \A doc \in Documents(ast.field) :
                /\ matches(doc, query) # matches(doc, NotEmptyPredicate(ast.field))
                /\ (\/ Holds(doc, ast.field, None)
                    \/ Holds(doc, ast.field, EmptyString)
                    \/ Lacks(doc, ast.field)) => matches(doc, query)
    /\ pc = "returned" /\ Compares(ast, IsNotEmpty) =>
          /\ query = NotEmptyPredicate(ast.field)
          /\ \A doc \in Documents(ast.field) :
                matches(doc, query) # matches(doc, EmptyPredicate(ast.field))

C13_Witness ==
    /\ pc = "returned"
    /\ expression = PyStr(Age \o <<" ", "i", "s", " ", "n", "o", "t", " ", "e", "m", "p", "t", "y">>)
    /\ query = NotEmptyPredicate(Age)
    /\ \E doc \in Documents(Age) : matches(doc, query) /\ Holds(doc, Age, PyStr(<<"x">>))
    /\ \E doc \in Documents(Age) : ~matches(doc, query) /\ Lacks(doc, Age)


(* C14: the connectives and, or, the keywords contains, startswith,        *)
(* endswith, is, not, null, empty and the literals true, false are read in *)
(* any letter case: an expression that differs from a lower-case one only  *)
(* in the case of these words parses to the same AST (a=1 and b=2,         *)
(* a=1 AND b=2 and a=1 And b=2 to the same And node).                      *)
C14_KeywordsIgnoreCase ==
    \A c \in KeywordCases :
        expression = [t |-> "str", s |-> c.text] =>
            /\ pc # "raised"
            /\ pc \in {"compile", "returned"} => ast = c.node

C14_Witness ==
    /\ pc = "compile"
    /\ expression = PyStr(<<"a", "=", "1", " ", "A", "n", "d", " ", "b", "=", "2">>)
    /\ ast = And(Comparison(<<"a">>, <<"=">>, Number1), Comparison(<<"b">>, <<"=">>, Number2))


Digits09 == {"0", "1", "2", "3", "4", "5", "6", "7", "8", "9"}

(* the first position from p on that holds no blank, or the end of text *)
AfterBlanks(text, p) ==
    CHOOSE q \in p..Len(text) :
        /\ \A r \in (p + 1)..q : text[r] \in {" ", TAB}
        /\ q = Len(text) \/ text[q + 1] \notin {" ", TAB}

(* a number starts at the character after position p: a digit, or a minus  *)
(* sign right before a digit                                               *)
NumberStartsAt(text, p) ==
    /\ p < Len(text)
    /\ \/ text[p + 1] \in Digits09
       \/ text[p + 1] = "-" /\ p + 1 < Len(text) /\ text[p + 2] \in Digits09

(* the position after the number that starts after p: an optional minus    *)
(* sign, then digits with at most one point                                *)
NumberEndsAt(text, p) ==
    LET first == IF text[p + 1] = "-" THEN p + 1 ELSE p
        part(r) == \/ text[r] \in Digits09
                   \/ text[r] = "." /\ \A k \in (first + 1)..(r - 1) : text[k] # "."
    IN  CHOOSE q \in (first + 1)..Len(text) :
            /\ \A r \in (first + 1)..q : part(r)
            /\ q = Len(text) \/ ~part(q + 1)

(* the value of the decimal numeral t *)
NumeralValue(t) ==
    LET neg == t[1] = "-"
        body == IF neg THEN Tail(t) ELSE t
        point == IF \E i \in DOMAIN body : body[i] = "."
                 THEN CHOOSE i \in DOMAIN body : body[i] = "." ELSE Len(body) + 1
        figures == SelectSeq(body, LAMBDA c : c # ".")
        digit(c) == CHOOSE d \in 0..9 : <<"0", "1", "2", "3", "4", "5", "6", "7", "8", "9">>[d + 1] = c
        nat[k \in 0..Len(figures)] == IF k = 0 THEN 0 ELSE 10 * nat[k - 1] + digit(figures[k])
        places == Len(figures) - (point - 1)
        drop == CHOOSE z \in 0..places :
                    /\ nat[Len(figures)] % Pow10(z) = 0
                    /\ z = places \/ nat[Len(figures)] % Pow10(z + 1) # 0
    IN  [t |-> "float", kind |-> "finite", neg |-> neg,
         mant |-> nat[Len(figures)] \div Pow10(drop), frac |-> places - drop]

(* the token the step has appended *)
Appended == IF Len(tokens') = Len(tokens) + 1 /\ SubSeq(tokens', 1, Len(tokens)) = tokens
            THEN tokens'[Len(tokens')] ELSE [type |-> "none", val |-> None]

(* at the start of a number the lexer appends the NUMBER token of the      *)
(* numeral, a float, and stops after it                                    *)
ReadsNumber(text, start) ==
    /\ pc' = "tokenize"
    /\ pos' = NumberEndsAt(text, start)
    /\ Appended.type = "NUMBER" /\ Appended.val.t = "float"
    /\ pos' - start <= 9 => Appended.val = NumeralValue(SubSeq(text, start + 1, pos'))

NumberStep ==
    /\ pc = "tokenize" /\ NumberStartsAt(expression.s, AfterBlanks(expression.s, pos)) =>
          ReadsNumber(expression.s, AfterBlanks(expression.s, pos))
    /\ pc = "tokenize" /\ Appended.type = "NUMBER" =>
          NumberStartsAt(expression.s, AfterBlanks(expression.s, pos))

NumberScenario ==
    /\ expression = [t |-> "str", s |-> <<"p", "r", "i", "c", "e", " ", ">", "=", " ", "9", ".", "9", "9">>]
       /\ pc' = "compile" =>
          ast' = [type |-> "comparison", field |-> <<"p", "r", "i", "c", "e">>,
                  operator |-> <<">", "=">>,
                  value |-> [t |-> "float", kind |-> "finite", neg |-> FALSE, mant |-> 999, frac |-> 2]]
    /\ expression.t = "str"
       /\ expression.s \in {<<"a", " ", "=", " ", "4", "2">>, <<"a", " ", "=", " ", "4", "2", ".", "0">>}
       /\ pc' = "compile" =>
          ast' = [type |-> "comparison", field |-> <<"a">>, operator |-> <<"=">>,
                  value |-> [t |-> "float", kind |-> "finite", neg |-> FALSE, mant |-> 42, frac |-> 0]]

(* the number steps of the texts whose numerals hold decimal digits only *)
NumberTokensOfDecimalDigits ==
    [][(pc = "tokenize" => \A i \in DOMAIN expression.s : expression.s[i] # SUP2)
       => NumberStep /\ NumberScenario]_vars

(* C15: a number token starts at a digit or at a minus sign right before a *)
(* digit, takes digits and at most one point, and a minus sign only as its *)
(* first character (1-2 is not one number); its value is always a float:   *)
(* price >= 9.99 parses to the comparison of price with the number 9.99,   *)
(* and 42 and 42.0 give the same literal.                                  *)
C15_NumberTokens == [][NumberStep /\ NumberScenario]_vars


(* the places of the closing quote: the occurrences of the quote character *)
(* in the text after the opening quote that no backslash escapes           *)
ClosingQuotes(rest, quote) == {k \in DOMAIN rest : rest[k] = quote /\ ~IsEscaped(rest, k)}

FirstOf(set) == CHOOSE k \in set : \A j \in set : k <= j

(* the step at an opening quote at position start: the STRING token of the *)
(* characters up to the first closing quote, without the escaping          *)
(* backslashes, or the error of a string that is not closed                *)
ReadsString(text, start) ==
    LET rest == SubSeq(text, start + 2, Len(text))
        closing == ClosingQuotes(rest, text[start + 1])
    IN  IF closing # {}
        THEN /\ pc' = "tokenize"
             /\ pos' = start + 1 + FirstOf(closing)
             /\ Appended = [type |-> "STRING",
                            val |-> [t |-> "str",
                                     s |-> Unescaped(SubSeq(rest, 1, FirstOf(closing) - 1))]]
        ELSE /\ pc' = "raised"
             /\ tokens' = tokens
             /\ error' = [kind |-> "FilterParseError", msg |-> <<"Unterminated string">>]

StringStep ==
    /\ pc = "tokenize"
       /\ AfterBlanks(expression.s, pos) < Len(expression.s)
       /\ expression.s[AfterBlanks(expression.s, pos) + 1] \in {"\"", "'"}
       => ReadsString(expression.s, AfterBlanks(expression.s, pos))
    /\ pc = "tokenize" /\ Appended.type = "STRING" =>
          expression.s[AfterBlanks(expression.s, pos) + 1] \in {"\"", "'"}

(* C16: a string opened by " or ' ends at the next occurrence of the same  *)
(* quote character that no backslash escapes; its value is the characters  *)
(* in between, where a backslash is dropped and the character after it is  *)
(* taken as it is (O\"Brien gives O"Brien) and the other quote character   *)
(* is an ordinary character; without a closing quote tokenize raises       *)
(* FilterParseError, Unterminated string.                                  *)
C16_QuotedStrings == [][StringStep]_vars

C16_Witness ==
    /\ pc = "tokenize"
    /\ expression = PyStr(<<"n", "a", "m", "e", " ", "=", " ", "\"", "O", "\\", "\"", "B", "r", "i", "e", "n", "\"">>)
    /\ Len(tokens) = 3
    /\ tokens[3] = Token("STRING", PyStr(<<"O", "\"", "B", "r", "i", "e", "n">>))
    /\ pos = Len(expression.s)

(* a string without its closing quote has been refused *)
C16_UnterminatedWitness ==
    /\ pc = "raised"
    /\ expression = PyStr(<<"a", "=", "'", "x", "\\", "'">>)
    /\ error = Raise("FilterParseError", <<"Unterminated string">>)


(* the token list tokenize returned: not empty, ended by the one EOF token *)
EndsWithOneEof(toks) ==
    /\ toks # <<>>
    /\ toks[Len(toks)] = [type |-> "EOF", val |-> None]
    /\ \A i \in 1..(Len(toks) - 1) : toks[i].type # "EOF"

(* a step of the lexer that goes on scanning has moved to the right in the *)
(* text and has put the one token it scanned after the tokens before it    *)
ScansLeftToRight ==
    pc = "tokenize" /\ pc' = "tokenize" =>
        /\ pos' > pos
        /\ Len(tokens') = Len(tokens) + 1
        /\ SubSeq(tokens', 1, Len(tokens)) = tokens
        /\ tokens'[Len(tokens')].type # "EOF"

(* C17: whenever tokenize returns, the token sequence is not empty, its    *)
(* last token is the end-of-input token and no earlier token is; the       *)
(* tokens are in the left-to-right order of the text they were scanned     *)
(* from.                                                                   *)
C17_TokensEndWithEof ==
    [][/\ ScansLeftToRight
       /\ \A blank \in {<<>>, <<" ">>, <<" ", TAB>>} : EndsWithOneEof(tokenize(blank).tokens)
       /\ pc = "tokenize" /\ pc' = "parse" =>
             /\ EndsWithOneEof(tokens')
             /\ SubSeq(tokens', 1, Len(tokens)) = tokens]_vars

C17_Witness ==
    /\ pc = "parse"
    /\ expression = PyStr(<<"a", "=", "1">>)
    /\ tokens = <<Token("FIELD", PyStr(<<"a">>)), Token("OPERATOR", PyStr(<<"=">>)),
                  Token("NUMBER", Number1), EOF>>


NullaryOperators == {IsNull, IsNotNull, IsEmpty, IsNotEmpty}

(* every comparison of the tree has no value exactly when its operator is  *)
(* one of the four checks, and a string, number or boolean otherwise       *)
RECURSIVE ValuesFitOperators(_)
ValuesFitOperators(node) ==
    CASE node.type \in {"and", "or"} ->
            ValuesFitOperators(node.left) /\ ValuesFitOperators(node.right)
      [] node.type = "comparison" ->
            /\ node.value = None <=> node.operator \in NullaryOperators
            /\ node.operator \notin NullaryOperators => node.value.t \in {"str", "float", "bool"}
      [] OTHER -> TRUE

(* C18: in every AST parse returns, a Comparison node has the value None   *)
(* exactly when its operator is is_null, is_not_null, is_empty or          *)
(* is_not_empty; with any other operator its value is a string, number or  *)
(* boolean literal.                                                        *)
C18_ValueNoneIffNullary == ast # None => ValuesFitOperators(ast)

C18_Witness ==
    /\ pc = "compile"
    /\ expression = PyStr(Concat(<<CmpA, <<" ", "A", "N", "D", " ">>, CmpB>>))
    /\ ast = And(Comparison(<<"a">>, <<"=">>, Number1), Comparison(<<"b">>, IsNull, PyNone))


(* C19: parsing has no hidden state: a call of parse_filter with a text    *)
(* gives the AST, or the error, that every earlier call with the same text *)
(* gave, whatever calls came in between.                                   *)
C19_ParseIsRepeatable ==
    /\ pc \in {"returned", "raised"}
    /\ expression.t = "str" /\ expression.s \in RepeatTexts
    /\ results[expression.s].seen
    => Outcome = results[expression.s]

C19_Witness ==
    /\ pc = "returned"
    /\ expression = PyStr(Concat(<<CmpA, <<" ", "A", "N", "D", " ">>, CmpB>>))
    /\ results[expression.s].seen
    /\ results[<<"a", " ", "=">>].seen
    /\ results[<<"a", " ", "=">>].ast = PyNone
    /\ ast = And(Comparison(<<"a">>, <<"=">>, Number1), Comparison(<<"b">>, IsNull, PyNone))
    /\ results[expression.s].ast = ast


(* what an evaluation that has ended gave, against the same call alone:    *)
(* the AST and the predicate, or the exception                             *)
ParsedAlone(call) ==
    IF call.ast = PyNone
    THEN /\ ~parse_filter(call.expression).ok
         /\ call.error = parse_filter(call.expression).error
         /\ call.query = PyNone
    ELSE /\ parse_filter(call.expression).ok
         /\ call.ast = parse_filter(call.expression).node
CompiledAlone(call) ==
    call.ast # PyNone =>
        IF call.pc = "returned"
        THEN /\ ast_to_mongo_query(call.ast, call.field_types).ok
             /\ call.query = ast_to_mongo_query(call.ast, call.field_types).val
        ELSE /\ ~ast_to_mongo_query(call.ast, call.field_types).ok
             /\ call.error.kind = ast_to_mongo_query(call.ast, call.field_types).exc
AsAlone(call) ==
    call.pc \in {"returned", "raised"} => ParsedAlone(call) /\ CompiledAlone(call)

(* C20: under every interleaving of the steps of two evaluations, each     *)
(* evaluation ends with the AST and the predicate, or the error, that the  *)
(* same call gives when it runs alone.                                     *)
C20_ConcurrentAsAlone ==
    other # Idle => AsAlone(Running) /\ AsAlone(other)

(* one evaluation has returned its predicate while the scan of the other, *)
(* begun before, is at its second token                                    *)
C20_Witness ==
    /\ other # Idle
    /\ pc = "returned"
    /\ expression.s = <<"a", "=", "1">>
    /\ ast = Comparison(<<"a">>, <<"=">>, Number1)
    /\ query # PyNone
    /\ other.pc = "tokenize"
    /\ other.expression.s = <<"a", " ", "@", " ", "1">>
    /\ other.pos = 1
    /\ Len(other.tokens) = 1

Conversion(value, to_type) ==
    conversion.pc # "idle" /\ conversion.value = value /\ conversion.to_type = to_type
IsPair(result) ==
    /\ result.t = "tuple"
    /\ Len(result.items) = 2
    /\ result.items[1].t = "bool"
Ok == conversion.result.items[1].b
Converted == conversion.result.items[2]
NoValue == conversion.value \in {PyNone, PyStr(<<>>)}

(* what a call of can_convert_value that returned reports: failure as      *)
(* (False, None), DICT and LIST only for a value of that type, no value    *)
(* for None and ''                                                         *)
CoercionReports ==
    /\ IsPair(conversion.result)
    /\ ~Ok => Converted = PyNone
    /\ NoValue => Ok /\ Converted = PyNone
    /\ ~NoValue /\ conversion.to_type = DICT =>
           (Ok <=> conversion.value.t = "dict") /\ (Ok => Converted = conversion.value)
    /\ ~NoValue /\ conversion.to_type = LIST =>
           (Ok <=> conversion.value.t = "list") /\ (Ok => Converted = conversion.value)

(* the claim for the calls that return *)
ReturnedCoercionReports == conversion.pc = "returned" => CoercionReports

(* C21: can_convert_value is total: a call on any value and any target     *)
(* type returns a pair (ok, value) and never raises; a failed conversion   *)
(* is (False, None), DICT and LIST succeed only for a value that is a dict *)
(* or a list, and None or '' gives (True, None) for every target.          *)
C21_CoercionIsTotal ==
    conversion.pc \notin {"idle", "call"} => conversion.pc = "returned" /\ CoercionReports


(* the predicate of a comparison names the field of the comparison: under  *)
(* its key, or under each of the three keys of an empty check              *)
NamesField(q, key) ==
    /\ q.t = "dict"
    /\ \/ Len(q.items) = 1 /\ q.items[1][1] = key
       \/ /\ Len(q.items) = 1
          /\ q.items[1][1] \in {Key_and, Key_or}
          /\ Len(q.items[1][2].items) = 3
          /\ \A i \in 1..3 : q.items[1][2].items[i].items[1][1] = key

(* the predicate q has the shape of the AST node: a dict of the one key    *)
(* $and or $or over a list of the predicates of the left and the right     *)
(* child, in that order, down to the comparisons                           *)
RECURSIVE MirrorsAst(_, _, _)
MirrorsAst(node, q, ft) ==
    IF node.type \in {"and", "or"}
    THEN /\ q.t = "dict"
         /\ Len(q.items) = 1
         /\ q.items[1][1] = (IF node.type = "and" THEN Key_and ELSE Key_or)
         /\ q.items[1][2].t = "list"
         /\ Len(q.items[1][2].items) = 2
         /\ q.items[1][2].items[1] = ast_to_mongo_query(node.left, ft).val
         /\ q.items[1][2].items[2] = ast_to_mongo_query(node.right, ft).val
         /\ MirrorsAst(node.left, q.items[1][2].items[1], ft)
         /\ MirrorsAst(node.right, q.items[1][2].items[2], ft)
    ELSE /\ node.type = "comparison"
         /\ NamesField(q, field_key(node.field))

(* C22: And{l, r} compiles to $and over exactly [compile(l), compile(r)]   *)
(* in that order and Or{l, r} to $or likewise; no child is dropped or      *)
(* flattened, so the predicate has the shape of the AST.                   *)
C22_ConnectivesMirrorAst ==
    pc = "returned" /\ ast.type \in {"and", "or"} => MirrorsAst(ast, query, field_types)

C22_Witness ==
    /\ pc = "returned"
    /\ ast.type = "or" /\ ast.left.type = "and" /\ ast.right.type = "comparison"
    /\ ast.left.left.field # ast.left.right.field
    /\ query.items[1][1] = Key_or
    /\ query.items[1][2].items[1].items[1][1] = Key_and
    /\ NamesField(query.items[1][2].items[1].items[1][2].items[1], field_key(ast.left.left.field))
    /\ NamesField(query.items[1][2].items[2], field_key(ast.right.field))


(* the lexer returned its tokens and the parser has run *)
ParserRan ==
    /\ pc \in {"compile", "returned", "raised"}
    /\ tokens # <<>>
    /\ tokens[Len(tokens)] = EOF
ParserRaised == pc = "raised" /\ ast = PyNone /\ error.kind = "FilterParseError"

Keyword(word) == Token("KEYWORD", PyStr(word))
Null == <<"n", "u", "l", "l">>
Not == <<"n", "o", "t">>

(* the tokens begin with a field reference, the keyword is and these words *)
FieldIs(words) ==
    /\ ParserRan
    /\ Len(tokens) >= 3 + Len(words)
    /\ tokens[1].type = "FIELD"
    /\ tokens[2] = Keyword(<<"i", "s">>)
    /\ \A i \in DOMAIN words : tokens[2 + i] = Keyword(words[i])

RECURSIVE FirstComparison(_)
FirstComparison(node) ==
    IF node.type \in {"and", "or"} THEN FirstComparison(node.left) ELSE node

(* the continuation gives the comparison of the field with op and no       *)
(* value: the whole AST when the input ends there, its first comparison    *)
(* when more follows and the parser accepts it                             *)
Accepted(words, op) ==
    FieldIs(words) =>
        /\ tokens[3 + Len(words)] = EOF =>
               ast = Comparison(tokens[1].val.s, op, PyNone)
        /\ ast # PyNone =>
               FirstComparison(ast) = Comparison(tokens[1].val.s, op, PyNone)

(* C23: after a field reference, is accepts exactly is null, is empty, is  *)
(* not null and is not empty, which give is_null, is_empty, is_not_null    *)
(* and is_not_empty with value None; any other token after is or after is  *)
(* not, the end of the input included, raises a parse error.               *)
C23_IsContinuations ==
    /\ Accepted(<<Null>>, IsNull)
    /\ Accepted(<<<<"e", "m", "p", "t", "y">>>>, IsEmpty)
    /\ Accepted(<<Not, Null>>, IsNotNull)
    /\ Accepted(<<Not, <<"e", "m", "p", "t", "y">>>>, IsNotEmpty)
    /\ FieldIs(<<>>)
       /\ tokens[3] \notin {Keyword(Null), Keyword(<<"e", "m", "p", "t", "y">>), Keyword(Not)}
       => ParserRaised
    /\ FieldIs(<<Not>>)
       /\ tokens[4] \notin {Keyword(Null), Keyword(<<"e", "m", "p", "t", "y">>)}
       => ParserRaised

(* a is not empty was accepted, and a is, a is x, a is not and a is not    *)
(* "null" are texts of the model                                           *)
C23_Witness ==
    /\ FieldIs(<<Not, <<"e", "m", "p", "t", "y">>>>)
    /\ tokens[5] = EOF
    /\ ast = Comparison(<<"a">>, IsNotEmpty, PyNone)
    /\ pc = "returned"

C23_RejectedAfterIs ==
    /\ FieldIs(<<>>) /\ tokens[3] = EOF /\ ParserRaised
C23_RejectedAfterIsNot ==
    /\ FieldIs(<<Not>>) /\ tokens[4] = Token("STRING", PyStr(Null)) /\ ParserRaised


(* no node below this one is the empty node *)
RECURSIVE NoEmptyBelow(_)
NoEmptyBelow(node) ==
    node.type \in {"and", "or"} =>
        /\ node.left # Empty /\ node.right # Empty
        /\ NoEmptyBelow(node.left) /\ NoEmptyBelow(node.right)

(* a place of the token list where an expression of no tokens would stand: *)
(* a connective at the start, () , a connective after ( or after a         *)
(* connective, and ) or the end after a connective                         *)
Logic(tok) == tok.type = "LOGIC"
StartsNothing(tok) == tok.type \in {"LOGIC", "RPAREN", "EOF"}
ZeroLengthAt(i) ==
    \/ i = 1 /\ Logic(tokens[1])
    \/ /\ i > 1
       /\ tokens[i - 1].type = "LPAREN" \/ Logic(tokens[i - 1])
       /\ StartsNothing(tokens[i])

TrailingScenario ==
    expression.s \in {<<"a", "=", "1", " ", "b", "=", "2">>, <<"a", "=", "1", ")">>}
ZeroLengthScenario ==
    expression.s \in {<<"(", ")">>, <<"a", "=", "1", " ", "A", "N", "D">>,
                      <<"O", "R", " ", "a", "=", "1">>}

(* C24: parse returns Empty only for the token list of the one EOF token;  *)
(* it returns an expression only when every token before EOF is consumed,  *)
(* so a=1 b=2 and a=1) raise a parse error; an expression of no tokens     *)
(* (in (), after AND, before OR) raises a parse error, and the empty node  *)
(* is never a child of an And or Or node.                                  *)
C24_OneCompleteExpression ==
    ParserRan =>
        /\ ast = Empty <=> tokens = <<EOF>>
        /\ ast # PyNone => pos = Len(tokens) - 1 /\ NoEmptyBelow(ast)
        /\ (\E i \in DOMAIN tokens : ZeroLengthAt(i)) /\ tokens # <<EOF>> => ParserRaised
        /\ TrailingScenario \/ ZeroLengthScenario => ParserRaised

C24_Witness ==
    /\ ParserRan
    /\ ast = Empty
    /\ tokens = <<EOF>>
    /\ expression.s = <<" ", TAB, " ">>
    /\ pc = "returned"

C24_TrailingWitness == ParserRan /\ ParserRaised /\ TrailingScenario
C24_ZeroLengthWitness == ParserRan /\ ParserRaised /\ ZeroLengthScenario


SixOperators == {<<"=">>, <<"!", "=">>, <<">">>, <<"<">>, <<">", "=">>, <<"<", "=">>}

(* the operator character after position start, with the = that follows it *)
(* directly, if any                                                        *)
GreedyOperator(text, start) ==
    IF start + 1 < Len(text) /\ text[start + 2] = "="
    THEN <<text[start + 1], "=">>
    ELSE <<text[start + 1]>>

(* the step at an operator character: the OPERATOR token of the character  *)
(* and a following =, or the error Unknown operator                        *)
ReadsOperator(text, start) ==
    IF GreedyOperator(text, start) \in SixOperators
    THEN /\ pc' = "tokenize"
         /\ pos' = start + Len(GreedyOperator(text, start))
         /\ Appended = [type |-> "OPERATOR", val |-> [t |-> "str", s |-> GreedyOperator(text, start)]]
    ELSE /\ pc' = "raised"
         /\ tokens' = tokens
         /\ error' = [kind |-> "FilterParseError",
                      msg |-> <<"Unknown operator: ", GreedyOperator(text, start)>>]

OperatorStep ==
    /\ pc = "tokenize"
       /\ AfterBlanks(expression.s, pos) < Len(expression.s)
       /\ expression.s[AfterBlanks(expression.s, pos) + 1] \in {"=", "!", ">", "<"}
       => ReadsOperator(expression.s, AfterBlanks(expression.s, pos))
    /\ \A i \in DOMAIN tokens' :
           tokens'[i].type = "OPERATOR" =>
               tokens'[i].val.t = "str" /\ tokens'[i].val.s \in SixOperators

(* C25: at one of the characters = ! > < the lexer takes the character and *)
(* a directly following =; =, >, <, !=, >= and <= become OPERATOR tokens,  *)
(* a ! without = after it raises FilterParseError, Unknown operator, and   *)
(* every OPERATOR token carries one of these six operators.                *)
C25_OperatorTokens == [][OperatorStep]_vars

C25_Witness ==
    /\ pc = "tokenize"
    /\ expression.s = <<"a", ">", "=">>
    /\ tokens = <<Token("FIELD", PyStr(<<"a">>)), Token("OPERATOR", PyStr(<<">", "=">>))>>
    /\ pos = 3

C25_UnknownOperatorWitness ==
    /\ pc = "raised"
    /\ expression.s = <<"a", "!", ">">>
    /\ error = Raise("FilterParseError", <<"Unknown operator: ", <<"!">>>>)


Letters == Range(LowerLetters) \cup Range(UpperLetters)
IdentifierStart == Letters \cup {"_"}
(* letters, digits (the superscript two is a digit of str.isalnum), _ - . *)
IdentifierPart == Letters \cup Digits09 \cup {SUP2, "_", "-", "."}

(* the position after the run of identifier characters that starts after   *)
(* position start                                                          *)
IdentifierEndsAt(text, start) ==
    CHOOSE stop \in (start + 1)..Len(text) :
        /\ \A r \in (start + 1)..stop : text[r] \in IdentifierPart
        /\ stop = Len(text) \/ text[stop + 1] \notin IdentifierPart

(* the token of an identifier: by its lower-cased form a connective, a     *)
(* keyword or a boolean, and a field reference as it is written otherwise  *)
IdentifierToken(ident) ==
    IF lower(ident) \in {<<"a", "n", "d">>, <<"o", "r">>}
    THEN [type |-> "LOGIC", val |-> [t |-> "str", s |-> lower(ident)]]
    ELSE IF lower(ident) \in {<<"c", "o", "n", "t", "a", "i", "n", "s">>,
                               <<"s", "t", "a", "r", "t", "s", "w", "i", "t", "h">>,
                               <<"e", "n", "d", "s", "w", "i", "t", "h">>, <<"i", "s">>,
                               <<"n", "o", "t">>, <<"e", "m", "p", "t", "y">>, <<"n", "u", "l", "l">>}
    THEN [type |-> "KEYWORD", val |-> [t |-> "str", s |-> lower(ident)]]
    ELSE IF lower(ident) \in {<<"t", "r", "u", "e">>, <<"f", "a", "l", "s", "e">>}
    THEN [type |-> "BOOLEAN", val |-> [t |-> "bool", b |-> lower(ident) = <<"t", "r", "u", "e">>]]
    ELSE [type |-> "FIELD", val |-> [t |-> "str", s |-> ident]]

ReadsIdentifier(text, start) ==
    /\ pc' = "tokenize"
    /\ pos' = IdentifierEndsAt(text, start)
    /\ Appended = IdentifierToken(SubSeq(text, start + 1, IdentifierEndsAt(text, start)))

IdentifierStep ==
    /\ pc = "tokenize"
       /\ AfterBlanks(expression.s, pos) < Len(expression.s)
       /\ expression.s[AfterBlanks(expression.s, pos) + 1] \in IdentifierStart
       => ReadsIdentifier(expression.s, AfterBlanks(expression.s, pos))
    /\ pc = "tokenize" /\ Appended.type \in {"FIELD", "LOGIC", "KEYWORD", "BOOLEAN"} =>
          expression.s[AfterBlanks(expression.s, pos) + 1] \in IdentifierStart

(* C26: a run that starts with a letter or _ and goes on over letters,     *)
(* digits, _ - and . is one identifier; it is a field reference with the   *)
(* casing it is written in, unless its lower-cased form is and, or, one of *)
(* the seven keywords, true or false; user.first-name is one field         *)
(* reference.                                                              *)
C26_Identifiers == [][IdentifierStep]_vars

C26_Witness ==
    /\ pc = "tokenize"
    /\ expression.s = <<"u", "s", "e", "r", ".", "f", "i", "r", "s", "t", "-", "n", "a", "m", "e", " ", "=", " ", "1">>
    /\ tokens = <<Token("FIELD", PyStr(<<"u", "s", "e", "r", ".", "f", "i", "r", "s", "t", "-", "n", "a", "m", "e">>))>>
    /\ pos = 15

(* Name and name are two field references *)
C26_CaseWitness ==
    /\ pc = "parse"
    /\ expression.s = <<"N", "a", "m", "e", "=", "n", "a", "m", "e">>
    /\ tokens[1] = Token("FIELD", PyStr(<<"N", "a", "m", "e">>))
    /\ tokens[3] = Token("FIELD", PyStr(<<"n", "a", "m", "e">>))


(* the AST of a primary of ChainOfThreeTexts *)
NodeOfPrimary(text) ==
    IF text = GroupOr THEN Or(NodeA, NodeB)
    ELSE IF text = GroupAnd THEN And(NodeA, NodeB)
    ELSE NodeOf(text)

(* no And node has an And node as its right child, no Or node an Or node *)
RECURSIVE NestsLeft(_)
NestsLeft(node) ==
    node.type \in {"and", "or"} =>
        /\ node.right.type # node.type
        /\ NestsLeft(node.left)
        /\ NestsLeft(node.right)

(* C27: a chain of one connective groups to the left: A AND B AND C parses *)
(* to And{And{A,B}, C} and A OR B OR C to Or{Or{A,B}, C} for any primaries *)
(* A, B, C, and in the AST of an expression without parentheses no And     *)
(* node has an And node as its right child and no Or node an Or node.      *)
C27_ChainsGroupLeft ==
    expression # PyNone =>
        /\ expression.s \in ChainOfThreeTexts =>
           \A A \in Primaries, B \in Primaries, C \in Primaries :
              /\ expression.s = Concat(<<A, AND, B, AND, C>>) =>
                    /\ pc # "raised"
                    /\ HasAst => ast = And(And(NodeOfPrimary(A), NodeOfPrimary(B)),
                                           NodeOfPrimary(C))
              /\ expression.s = Concat(<<A, OR, B, OR, C>>) =>
                    /\ pc # "raised"
                    /\ HasAst => ast = Or(Or(NodeOfPrimary(A), NodeOfPrimary(B)),
                                          NodeOfPrimary(C))
        /\ HasAst /\ "(" \notin Range(expression.s) => NestsLeft(ast)

C27_Witness ==
    /\ pc = "returned"
    /\ expression = PyStr(Concat(<<CmpA, AND, CmpB, AND, CmpA>>))
    /\ ast = And(And(NodeA, NodeB), NodeA)

(* the right child of an And node is an And node that was a group *)
C27_GroupWitness ==
    /\ pc = "returned"
    /\ expression = PyStr(Concat(<<CmpA, AND, CmpB, AND, GroupAnd>>))
    /\ ast = And(And(NodeA, NodeB), And(NodeA, NodeB))


(* a call of a parser method at position p that gave r: the parser is not  *)
(* past the EOF token, has not gone back, and has consumed a token when it *)
(* returned a node                                                         *)
Consumes(r, p) ==
    /\ r.pos <= Len(tokens) - 1
    /\ r.pos >= p
    /\ r.ok => r.pos > p

(* every call of parse_primary, parse_and and parse_or at a token of the   *)
(* list, and every iteration of their loops at a connective                *)
ParserConsumes ==
    \A p \in 0..(Len(tokens) - 2) :
        /\ Consumes(parse_primary(tokens, p), p)
        /\ Consumes(parse_and(tokens, p), p)
        /\ Consumes(parse_or(tokens, p), p)
        /\ tokens[p + 1] = Token("LOGIC", PyStr(<<"a", "n", "d">>)) =>
               Consumes(parse_and_loop(tokens, p, NodeA), p)
        /\ tokens[p + 1] = Token("LOGIC", PyStr(<<"o", "r">>)) =>
               Consumes(parse_or_loop(tokens, p, NodeA), p)

(* a step of the tokenize loop raises or moves the scan position forward;  *)
(* the position stays within the text and the tokens within its length + 1; *)
(* on the tokens the lexer returns, every parser call consumes a token and *)
(* the parser stops at the EOF token at the latest                         *)
ProgressStep ==
    /\ pc = "tokenize" =>
          /\ pos' <= Len(expression.s)
          /\ Len(tokens') <= Len(expression.s) + 1
          /\ \/ pc' = "raised"
             \/ pos' > pos
             \/ pc' = "parse" /\ pos = Len(expression.s)
    /\ pc = "parse" => ParserConsumes /\ pos' <= Len(tokens) - 1

(* C28: lexing and parsing end on every input: each iteration of the       *)
(* tokenize loop raises or moves the scan position forward, the position   *)
(* never exceeds the length of the text and at most len(text) + 1 tokens   *)
(* are produced; each parser loop iteration and each recursive call        *)
(* consumes at least one token and the parser never goes past EOF.         *)
C28_LexingAndParsingEnd == [][ProgressStep]_vars

C28_Witness ==
    /\ pc = "returned"
    /\ expression = PyStr(Concat(<<GroupOr, AND, CmpB, AND, GroupAnd>>))
    /\ pos = Len(tokens) - 1
    /\ Len(tokens) = 24


ErrorOrderScenario == <<"s", "t", "a", "t", "u", "s", " ", "=", " ", "=", " ", "@">>

(* the text holds a character that starts no token, outside of any string *)
HoldsBadCharacter(text) == "@" \in Range(text) /\ Range(text) \cap {"\"", "'"} = {}

(* the exception came from the lexer: tokenize has not returned its tokens *)
LexerRaised == pc = "raised" /\ ast = PyNone /\ (tokens = <<>> \/ tokens[Len(tokens)] # EOF)

(* C29: the whole text is tokenized before the parser starts, so a lex     *)
(* error anywhere in the text is the error raised, also when a grammar     *)
(* error stands before it (status = = @ raises Unexpected character: @,    *)
(* not the error of the missing value), and no AST comes with an error of  *)
(* the lexer or the parser.                                                *)
C29_LexErrorFirst ==
    expression # PyNone =>
        /\ pc = "parse" => pos = Len(expression.s) /\ tokens[Len(tokens)] = EOF
        /\ HoldsBadCharacter(expression.s) =>
              /\ pc \notin {"parse", "compile", "returned"}
              /\ pc = "raised" => LexerRaised
        /\ expression.s \in ErrorOrderTexts \ {<<"a", " ", "!", " ", "@">>}
           /\ HoldsBadCharacter(expression.s) /\ pc = "raised" =>
              error = Raise("FilterParseError", <<"Unexpected character: ", "@">>)
        /\ pc = "raised" /\ error.kind = "FilterParseError" => ast = PyNone /\ query = PyNone

C29_Witness ==
    /\ pc = "raised"
    /\ expression = PyStr(ErrorOrderScenario)
    /\ error = Raise("FilterParseError", <<"Unexpected character: ", "@">>)
    /\ Len(tokens) = 3
    /\ ast = PyNone

(* without the bad character the same text raises the grammar error *)
C29_GrammarErrorWitness ==
    /\ pc = "raised"
    /\ expression = PyStr(<<"s", "t", "a", "t", "u", "s", " ", "=", " ", "=">>)
    /\ error = Raise("FilterParseError", <<"Expected value, got ", "OPERATOR">>)


(* the operators build_query has a branch for *)
ThirteenOperators ==
    SixOperators
    \cup {<<"c", "o", "n", "t", "a", "i", "n", "s">>, <<"s", "t", "a", "r", "t", "s", "w", "i", "t", "h">>,
          <<"e", "n", "d", "s", "w", "i", "t", "h">>}
    \cup {IsNull, IsNotNull, IsEmpty, IsNotEmpty}

RECURSIVE OperatorsHandled(_)
OperatorsHandled(node) ==
    IF node.type \in {"and", "or"}
    THEN OperatorsHandled(node.left) /\ OperatorsHandled(node.right)
    ELSE node.type = "comparison" /\ node.operator \in ThirteenOperators

(* no predicate anywhere in q is the dict without keys *)
RECURSIVE NoTrivialPredicate(_)
NoTrivialPredicate(q) ==
    /\ q # PyDict(<<>>)
    /\ \A i \in DOMAIN q.items :
           q.items[i][1] \in {Key_and, Key_or} =>
               \A j \in DOMAIN q.items[i][2].items : NoTrivialPredicate(q.items[i][2].items[j])

(* C30: a filter that was typed is never dropped without a word: every     *)
(* comparison the parser produces carries one of the thirteen operators    *)
(* the compiler handles, and the predicate of every expression that parses *)
(* to an AST other than Empty is not {}, the predicate list_entries takes  *)
(* for no filter.                                                          *)
C30_FilterNeverDropped ==
    /\ HasAst /\ ast # Empty => OperatorsHandled(ast)
    /\ HasAst /\ ~is_blank(expression) => ast # Empty
    /\ pc = "returned" /\ ast # Empty => bool(query) /\ NoTrivialPredicate(query)

C30_Witness ==
    /\ pc = "returned"
    /\ expression = PyStr(<<"a", "g", "e", " ", "i", "s", " ", "n", "o", "t", " ", "n", "u", "l", "l">>)
    /\ ast = Comparison(Age, IsNotNull, PyNone)
    /\ query = Dict1(field_key(Age), Dict1(Key_ne, PyNone))


====
